---- MODULE Spec2Model ----
(***************************************************************************)
(* The commit log of dislog: a Log is a list of segments, each a store     *)
(* file (length-prefixed records behind a buffered writer) and a           *)
(* memory-mapped index file (relative offset -> store position).           *)
(* The model follows internal/log/{log,segment,index}.go and the gRPC      *)
(* server's Produce/Consume handlers on top of it.                         *)
(***************************************************************************)
EXTENDS Integers, Sequences, FiniteSets, TLC

(***************************************************************************)
(* Bounds of the model.                                                    *)
(***************************************************************************)
\* number of Append calls explored in one behaviour
MaxAppends == 4
\* number of Append calls in the behaviours of SpecLong
MaxLongAppends == 10
\* number of Produce calls beside the stream of SpecStreamFair
MaxTailAppends == 2
\* the largest uint64 of the model: offsets are computed modulo MaxUint64 + 1
MaxUint64 == 15

(***************************************************************************)
(* Program constants.                                                      *)
(***************************************************************************)
lenWidth == 8
offWidth == 4
posWidth == 8
entWidth == offWidth + posWidth
DefaultMaxBytes == 1024

\* record values offered to Append (byte strings)
Values == {<<7>>, <<8, 8>>}
\* the configurations NewLog is called with; 0 selects the default
Configs ==
  { [MaxStoreBytes |-> 0,  MaxIndexBytes |-> 3 * entWidth, InitialOffset |-> 0],
    [MaxStoreBytes |-> 14, MaxIndexBytes |-> 0,  InitialOffset |-> 1] }
\* the configuration of SpecLong: four index entries per segment
LongConfig == [MaxStoreBytes |-> 0, MaxIndexBytes |-> 4 * entWidth, InitialOffset |-> 0]
\* the configurations of SpecReconf: an index file one byte short of an
\* entry, and the index of two entries the directory is reopened with
SmallIndexConfig ==
  [MaxStoreBytes |-> 0, MaxIndexBytes |-> entWidth - 1, InitialOffset |-> 1]
ReopenConfigs ==
  { SmallIndexConfig,
    [MaxStoreBytes |-> 0, MaxIndexBytes |-> 2 * entWidth, InitialOffset |-> 1] }
\* the configuration and the record values of SpecStore: 18 bytes of value
\* make 28 bytes on disk at offset 0 (8 of length, 2 + 18 of field 1) and 30
\* at a later offset (2 more of field 2)
StoreConfig == [MaxStoreBytes |-> 32, MaxIndexBytes |-> 0, InitialOffset |-> 0]
StoreValues == {[k \in 1..18 |-> 7], [k \in 1..18 |-> 8]}
\* the offsets callers ask for
Offsets == 0..MaxUint64

VARIABLES
  Config,         \* Log.Config, after NewLog's defaults
  dirExists,      \* whether Log.Dir exists
  files,          \* the files of Log.Dir: base offset -> <base>.store, <base>.index
  seg,            \* the segment objects the Log can reach, by base offset
  segments,       \* Log.segments: base offsets of the segment objects, in list order
  activeSegment,  \* Log.activeSegment: base offset of the object it points to
  status,         \* "open", "closed" (after Close or Reset), "crashed" (panic, SIGBUS)
  ret,            \* what the last call returned
  nAppends,       \* Append calls so far
  prevOff,        \* the offset the last successful Append of this Log object returned, or -1
  fresh,          \* the Log object was created over an empty directory
  reader,         \* the io.Reader of the last Log.Reader call and what it yielded
  stream,         \* the ConsumeStream handler: its request, what it sent, its context
  produceStream,  \* the ProduceStream handler: requests received, responses sent
  mu,             \* Log.mu: whether it is write-locked, how many read locks are held
  pc,             \* the goroutines calling the Log concurrently: call and position in it
  cluster,        \* the replicated log: committed commands, each node's user log
  calls,          \* the writes a store or an index used on its own was given
  picker,         \* the client's Picker: leader, followers, current, and its last picks
  maxOff          \* the highest offset a successful Append on this directory returned, or -1

vars == <<Config, dirExists, files, seg, segments, activeSegment, status, ret,
          nAppends, prevOff, fresh, reader, stream, produceStream, mu, pc,
          cluster, calls, picker, maxOff>>

(***************************************************************************)
(* Values and errors.                                                      *)
(***************************************************************************)
U64(n) == n % (MaxUint64 + 1)

NoErr == [kind |-> "nil", Offset |-> 0]
EOF == [kind |-> "EOF", Offset |-> 0]
ErrClosed == [kind |-> "file already closed", Offset |-> 0]
ErrNotExist == [kind |-> "no such file or directory", Offset |-> 0]
ErrUnmarshal == [kind |-> "proto: cannot parse", Offset |-> 0]
SIGBUS == [kind |-> "SIGBUS", Offset |-> 0]
Panic == [kind |-> "panic: index out of range", Offset |-> 0]
PermissionDenied == [kind |-> "PermissionDenied", Offset |-> 0]
ErrTransport == [kind |-> "Unavailable", Offset |-> 0]
ErrIO == [kind |-> "EIO", Offset |-> 0]
ErrOffsetOutOfRange(off) == [kind |-> "ErrOffsetOutOfRange", Offset |-> off]

Min(S) == CHOOSE x \in S : \A y \in S : x <= y

(***************************************************************************)
(* api.Record on the wire (proto3): field 1 = value (bytes, tag 10),       *)
(* field 2 = offset (varint, tag 16); zero-valued fields are omitted.      *)
(***************************************************************************)
Marshal(record) ==
  (IF record.Value = <<>> THEN <<>>
   ELSE <<10, Len(record.Value)>> \o record.Value)
  \o (IF record.Offset = 0 THEN <<>> ELSE <<16, record.Offset>>)

RECURSIVE UnmarshalInto(_, _)
UnmarshalInto(p, record) ==
  IF p = <<>> THEN [err |-> NoErr, record |-> record]
  ELSE IF p[1] = 10 /\ Len(p) >= 2 /\ Len(p) >= 2 + p[2]
    THEN UnmarshalInto(SubSeq(p, 3 + p[2], Len(p)),
                       [record EXCEPT !.Value = SubSeq(p, 3, 2 + p[2])])
  ELSE IF p[1] = 16 /\ Len(p) >= 2
    THEN UnmarshalInto(SubSeq(p, 3, Len(p)), [record EXCEPT !.Offset = p[2]])
  ELSE [err |-> ErrUnmarshal, record |-> record]

\* (p is evaluated once and then parsed: under ENABLED the arguments of an
\* operator are evaluated again at every use)
Unmarshal(p) ==
  [b \in {p} |-> UnmarshalInto(b, [Value |-> <<>>, Offset |-> 0])][p]

(***************************************************************************)
(* enc = binary.BigEndian                                                  *)
(***************************************************************************)
RECURSIVE PutUint(_, _)
PutUint(n, width) ==
  IF width = 0 THEN <<>> ELSE PutUint(n \div 256, width - 1) \o <<n % 256>>

Uint(b) ==
  LET u[k \in 0..Len(b)] == IF k = 0 THEN 0 ELSE u[k - 1] * 256 + b[k]
  IN u[Len(b)]

(***************************************************************************)
(* store: [size, buf, werr]; the bytes of the file are files[base].store,  *)
(* buf the bytes the bufio.Writer holds, werr the error the writer keeps   *)
(* once a write to the file failed (NoErr in every specification in which  *)
(* the file accepts all writes).                                           *)
(***************************************************************************)
newStore(file) == [size |-> Len(file), buf |-> <<>>, werr |-> NoErr]

\* store.Append: both writes go to the buffered writer; a writer that keeps
\* an error takes nothing
store_Append(s, p) ==
  IF s.werr # NoErr THEN [store |-> s, n |-> 0, pos |-> 0, err |-> s.werr]
  ELSE [store |-> [s EXCEPT !.buf = @ \o PutUint(Len(p), lenWidth) \o p,
                            !.size = @ + Len(p) + lenWidth],
        n |-> Len(p) + lenWidth,
        pos |-> s.size,
        err |-> NoErr]

\* store.Append when the file rejects the write of a flush that the
\* buffered writer starts inside binary.Write (stage "prefix": nothing of the
\* entry was taken) or inside s.buf.Write(p) (stage "payload": the length
\* prefix and the first k bytes of p were taken); size is not advanced
store_AppendFails(s, p, stage, k) ==
  IF s.werr # NoErr THEN [store |-> s, n |-> 0, pos |-> 0, err |-> s.werr]
  ELSE [store |-> [s EXCEPT !.buf = IF stage = "prefix" THEN @
                                    ELSE @ \o PutUint(Len(p), lenWidth)
                                           \o SubSeq(p, 1, k),
                            !.werr = ErrIO],
        n |-> 0,
        pos |-> 0,
        err |-> ErrIO]

\* File.ReadAt(b, off) with len(b) = n: all n bytes or an error
ReadAt(file, off, n) ==
  IF off + n > Len(file) THEN [err |-> EOF, b |-> <<>>]
  ELSE [err |-> NoErr, b |-> SubSeq(file, off + 1, off + n)]

\* the file after s.buf.Flush()
Flushed(s, file) == file \o s.buf

\* store.Read reading the file without flushing the buffered writer
store_Read_NoFlush(s, file, pos) ==
  LET size == ReadAt(file, pos, lenWidth)
  IN IF size.err # NoErr THEN [err |-> size.err, b |-> <<>>]
     ELSE ReadAt(file, pos + lenWidth, Uint(size.b))

\* store.Read, on the flushed file; Flush returns the error the writer keeps
store_Read(s, file, pos) ==
  LET f == Flushed(s, file)
      size == ReadAt(f, pos, lenWidth)
  IN IF s.werr # NoErr THEN [err |-> s.werr, b |-> <<>>]
     ELSE IF size.err # NoErr THEN [err |-> size.err, b |-> <<>>]
     ELSE ReadAt(f, pos + lenWidth, Uint(size.b))

(***************************************************************************)
(* index: [size, mmapLen]; the mapped entries are files[base].index        *)
(* (MAP_SHARED), one <<off, pos>> record per entWidth bytes; bytes of the  *)
(* mapping past the written entries are zero.                              *)
(***************************************************************************)
newIndex(indexLen, c) == [size |-> indexLen, mmapLen |-> c.MaxIndexBytes]

EntryAt(entries, k) ==
  IF k + 1 <= Len(entries) THEN entries[k + 1] ELSE [off |-> 0, pos |-> 0]

\* index.Read taking the slot behind the last entry for in = -1
index_Read_LastPastEnd(i, entries, in) ==
  IF i.size = 0 THEN [err |-> EOF, out |-> 0, pos |-> 0]
  ELSE LET out == IF in = -1 THEN i.size \div entWidth ELSE in
           pos == out * entWidth
       IN IF i.size + entWidth < pos + entWidth THEN [err |-> EOF, out |-> 0, pos |-> 0]
          ELSE [err |-> NoErr, out |-> EntryAt(entries, out).off,
                pos |-> EntryAt(entries, out).pos]

\* index.Read; relative offsets stay far below 2^32, so uint32() keeps them
index_Read(i, entries, in) ==
  IF i.size = 0 THEN [err |-> EOF, out |-> 0, pos |-> 0]
  ELSE LET out == IF in = -1 THEN (i.size \div entWidth) - 1 ELSE in
           pos == out * entWidth
       IN IF i.size < pos + entWidth THEN [err |-> EOF, out |-> 0, pos |-> 0]
          ELSE [err |-> NoErr, out |-> EntryAt(entries, out).off,
                pos |-> EntryAt(entries, out).pos]

\* index.IsMaxed: the next write would overflow the mapping
index_IsMaxed(i) == i.mmapLen < i.size + entWidth

\* index.Write that overwrites the last entry of a full mapping before it
\* returns io.EOF
index_Write_OverwritesLast(i, entries, closed, off, pos) ==
  IF i.mmapLen < i.size + entWidth
    THEN [err |-> EOF, index |-> i,
          entries |-> IF entries = <<>> THEN entries
                      ELSE SubSeq(entries, 1, Len(entries) - 1)
                           \o <<[off |-> off, pos |-> pos]>>]
  ELSE IF closed /\ i.size = 0
    THEN [err |-> SIGBUS, index |-> i, entries |-> entries]
  ELSE [err |-> NoErr,
        index |-> [i EXCEPT !.size = @ + entWidth],
        entries |-> IF closed THEN entries
                    ELSE SubSeq(entries, 1, i.size \div entWidth)
                         \o <<[off |-> off, pos |-> pos]>>]

\* index.Write. On a closed index the file was truncated to i.size and the
\* mapping is still in place: a store past the file's last page raises SIGBUS
\* (here: an empty file, sizes stay below one page), within the last page it
\* changes memory only.
index_Write(i, entries, closed, off, pos) ==
  IF i.mmapLen < i.size + entWidth
    THEN [err |-> EOF, index |-> i, entries |-> entries]
  ELSE IF closed /\ i.size = 0
    THEN [err |-> SIGBUS, index |-> i, entries |-> entries]
  ELSE [err |-> NoErr,
        index |-> [i EXCEPT !.size = @ + entWidth],
        entries |-> IF closed THEN entries
                    ELSE SubSeq(entries, 1, i.size \div entWidth)
                         \o <<[off |-> off, pos |-> pos]>>]

(***************************************************************************)
(* segment: [baseOffset, nextOffset, store, index, closed]                 *)
(***************************************************************************)
NoFile == [store |-> <<>>, index |-> <<>>, indexLen |-> 0]
FileOf(fs, base) == IF base \in DOMAIN fs THEN fs[base] ELSE NoFile
WithFile(fs, base, f) ==
  [b \in DOMAIN fs \cup {base} |-> IF b = base THEN f ELSE fs[b]]
WithoutFiles(fs, bases) == [b \in DOMAIN fs \ bases |-> fs[b]]

\* newSegment(dir, baseOffset, c): opens or creates both files
segment_new(fs, baseOffset, c) ==
  LET f == FileOf(fs, baseOffset)
      i == newIndex(f.indexLen, c)
      last == index_Read(i, f.index, -1)
  IN [files |-> WithFile(fs, baseOffset, [f EXCEPT !.indexLen = c.MaxIndexBytes]),
      s |-> [baseOffset |-> baseOffset,
             nextOffset |-> IF last.err # NoErr THEN baseOffset
                            ELSE U64(baseOffset + last.out + 1),
             store |-> newStore(f.store),
             index |-> i,
             closed |-> FALSE]]

\* segment.Append advancing nextOffset by two
segment_Append_SkipsOffset(s, f, value) ==
  LET cur == s.nextOffset
      p == Marshal([Value |-> value, Offset |-> cur])
      a == store_Append(s.store, p)
      w == index_Write(s.index, f.index, s.closed, s.nextOffset - s.baseOffset, a.pos)
  IN IF w.err # NoErr
       THEN [err |-> w.err, offset |-> 0, s |-> [s EXCEPT !.store = a.store], f |-> f]
     ELSE [err |-> NoErr, offset |-> cur,
           s |-> [s EXCEPT !.store = a.store, !.index = w.index,
                           !.nextOffset = U64(@ + 2)],
           f |-> [f EXCEPT !.index = w.entries]]

\* segment.Append advancing nextOffset before the index write is known to
\* have succeeded
segment_Append_AdvancesOnError(s, f, value) ==
  LET cur == s.nextOffset
      p == Marshal([Value |-> value, Offset |-> cur])
      a == store_Append(s.store, p)
      w == index_Write(s.index, f.index, s.closed, s.nextOffset - s.baseOffset, a.pos)
  IN IF w.err # NoErr
       THEN [err |-> w.err, offset |-> 0,
             s |-> [s EXCEPT !.store = a.store, !.nextOffset = U64(@ + 1)], f |-> f]
     ELSE [err |-> NoErr, offset |-> cur,
           s |-> [s EXCEPT !.store = a.store, !.index = w.index,
                           !.nextOffset = U64(@ + 1)],
           f |-> [f EXCEPT !.index = w.entries]]

\* segment.Append that does not set the offset of the record it stores
segment_Append_UnsetOffset(s, f, value) ==
  LET cur == s.nextOffset
      p == Marshal([Value |-> value, Offset |-> 0])
      a == store_Append(s.store, p)
      w == index_Write(s.index, f.index, s.closed, s.nextOffset - s.baseOffset, a.pos)
  IN IF w.err # NoErr
       THEN [err |-> w.err, offset |-> 0, s |-> [s EXCEPT !.store = a.store], f |-> f]
     ELSE [err |-> NoErr, offset |-> cur,
           s |-> [s EXCEPT !.store = a.store, !.index = w.index,
                           !.nextOffset = U64(@ + 1)],
           f |-> [f EXCEPT !.index = w.entries]]

\* segment.Append
segment_Append(s, f, value) ==
  LET cur == s.nextOffset
      p == Marshal([Value |-> value, Offset |-> cur])
      a == store_Append(s.store, p)
      w == index_Write(s.index, f.index, s.closed, s.nextOffset - s.baseOffset, a.pos)
  IN IF w.err # NoErr
       THEN [err |-> w.err, offset |-> 0, s |-> [s EXCEPT !.store = a.store], f |-> f]
     ELSE [err |-> NoErr, offset |-> cur,
           s |-> [s EXCEPT !.store = a.store, !.index = w.index,
                           !.nextOffset = U64(@ + 1)],
           f |-> [f EXCEPT !.index = w.entries]]

\* segment.Read
segment_Read(s, f, off) ==
  LET e == index_Read(s.index, f.index, off - s.baseOffset)
      p == IF s.closed THEN [err |-> ErrClosed, b |-> <<>>]
           ELSE store_Read(s.store, f.store, e.pos)
  IN IF e.err # NoErr THEN [err |-> e.err, rec |-> <<>>]
     ELSE IF p.err # NoErr THEN [err |-> p.err, rec |-> <<>>]
     ELSE [err |-> Unmarshal(p.b).err, rec |-> <<Unmarshal(p.b).record>>]

\* segment.IsMaxed with a store that is maxed only past MaxStoreBytes
IsMaxed_StorePast(s, c) ==
  \/ s.store.size > c.MaxStoreBytes
  \/ s.index.size >= c.MaxIndexBytes
  \/ index_IsMaxed(s.index)

\* segment.IsMaxed
IsMaxed(s, c) ==
  \/ s.store.size >= c.MaxStoreBytes
  \/ s.index.size >= c.MaxIndexBytes
  \/ index_IsMaxed(s.index)

\* segment.Close: the index file is truncated to its size, the store flushed
segment_Close(s, f) ==
  [s |-> [s EXCEPT !.closed = TRUE, !.store.buf = <<>>],
   f |-> [f EXCEPT !.indexLen = s.index.size,
                   !.index = SubSeq(@, 1, s.index.size \div entWidth),
                   !.store = Flushed(s.store, @)]]

(***************************************************************************)
(* Log. L = [files, seg, segments, activeSegment] is the Log object        *)
(* together with its directory.                                            *)
(***************************************************************************)
Log ==
  [files |-> files, seg |-> seg, segments |-> segments,
   activeSegment |-> activeSegment]

Range(q) == {q[k] : k \in 1..Len(q)}

\* a directory without files, a Log without segment objects
EmptyDir == [b \in {} |-> NoFile]
NoObjects == [b \in {} |-> 0]

\* the segment objects still referenced by the Log
Reachable(L) ==
  [L EXCEPT !.seg = [b \in (Range(L.segments) \cup {L.activeSegment})
                            \cap DOMAIN L.seg |-> L.seg[b]]]

\* Log.newSegment putting the new segment first in the list
Log_newSegment_Prepends(L, off, c) ==
  LET n == segment_new(L.files, off, c)
  IN Reachable(
       [files |-> n.files,
        seg |-> [b \in DOMAIN L.seg \cup {off} |-> IF b = off THEN n.s ELSE L.seg[b]],
        segments |-> <<off>> \o L.segments,
        activeSegment |-> off])

\* Log.newSegment
Log_newSegment(L, off, c) ==
  LET n == segment_new(L.files, off, c)
  IN Reachable(
       [files |-> n.files,
        seg |-> [b \in DOMAIN L.seg \cup {off} |-> IF b = off THEN n.s ELSE L.seg[b]],
        segments |-> L.segments \o <<off>>,
        activeSegment |-> off])

\* the directory listing of setup, parsed and sorted: every base offset
\* twice, once for its store file and once for its index file
RECURSIVE SortedNames(_)
SortedNames(bases) ==
  IF bases = {} THEN <<>>
  ELSE <<Min(bases), Min(bases)>> \o SortedNames(bases \ {Min(bases)})

RECURSIVE setupLoop(_, _, _, _)
setupLoop(L, baseOffsets, i, c) ==
  IF i > Len(baseOffsets) THEN L
  ELSE setupLoop(Log_newSegment(L, baseOffsets[i], c), baseOffsets, i + 2, c)

\* Log.setup on a Log object without segments, the directory existing
setup(fs, c) ==
  LET L0 == [files |-> fs, seg |-> NoObjects, segments |-> <<>>,
             activeSegment |-> -1]
      L1 == setupLoop(L0, SortedNames(DOMAIN fs), 1, c)
  IN IF L1.segments = <<>> THEN Log_newSegment(L1, c.InitialOffset, c) ELSE L1

\* NewLog's defaults
WithDefaults(c) ==
  [c EXCEPT !.MaxStoreBytes = IF @ = 0 THEN DefaultMaxBytes ELSE @,
            !.MaxIndexBytes = IF @ = 0 THEN DefaultMaxBytes ELSE @]

\* Log.Append creating the new segment at the offset of the record
Log_Append_NewSegmentAtOffset(L, value, c) ==
  LET a == L.seg[L.activeSegment]
      r == segment_Append(a, FileOf(L.files, a.baseOffset), value)
      L1 == [L EXCEPT !.seg[a.baseOffset] = r.s,
                      !.files = IF a.closed THEN @ ELSE WithFile(@, a.baseOffset, r.f)]
  IN IF r.err # NoErr THEN [L |-> L1, off |-> 0, err |-> r.err]
     ELSE IF IsMaxed(r.s, c)
       THEN [L |-> Log_newSegment(L1, r.offset, c), off |-> r.offset,
             err |-> NoErr]
     ELSE [L |-> L1, off |-> r.offset, err |-> NoErr]

\* Log.Append that never creates a new segment
Log_Append_NoRollover(L, value, c) ==
  LET a == L.seg[L.activeSegment]
      r == segment_Append(a, FileOf(L.files, a.baseOffset), value)
      L1 == [L EXCEPT !.seg[a.baseOffset] = r.s,
                      !.files = IF a.closed THEN @ ELSE WithFile(@, a.baseOffset, r.f)]
  IN IF r.err # NoErr THEN [L |-> L1, off |-> 0, err |-> r.err]
     ELSE [L |-> L1, off |-> r.offset, err |-> NoErr]

\* Log.Append
Log_Append(L, value, c) ==
  LET a == L.seg[L.activeSegment]
      r == segment_Append(a, FileOf(L.files, a.baseOffset), value)
      L1 == [L EXCEPT !.seg[a.baseOffset] = r.s,
                      !.files = IF a.closed THEN @ ELSE WithFile(@, a.baseOffset, r.f)]
  IN IF r.err # NoErr THEN [L |-> L1, off |-> 0, err |-> r.err]
     ELSE IF IsMaxed(r.s, c)
       THEN [L |-> Log_newSegment(L1, U64(r.offset + 1), c), off |-> r.offset,
             err |-> NoErr]
     ELSE [L |-> L1, off |-> r.offset, err |-> NoErr]

\* the positions of Log.segments whose segment covers off
Covering(L, off) ==
  {k \in 1..Len(L.segments) :
     /\ L.seg[L.segments[k]].baseOffset <= off
     /\ off < L.seg[L.segments[k]].nextOffset}

\* Log.Read reporting the last offset of the log instead of the requested one
Log_Read_ErrHighest(L, off) ==
  IF Covering(L, off) = {}
    THEN [err |-> ErrOffsetOutOfRange(
                    IF L.segments = <<>> THEN 0
                    ELSE L.seg[L.segments[Len(L.segments)]].nextOffset),
          rec |-> <<>>]
  ELSE LET s == L.seg[L.segments[Min(Covering(L, off))]]
       IN segment_Read(s, FileOf(L.files, s.baseOffset), off)

\* Log.Read: what it returns
Log_Read(L, off) ==
  IF Covering(L, off) = {} THEN [err |-> ErrOffsetOutOfRange(off), rec |-> <<>>]
  ELSE LET s == L.seg[L.segments[Min(Covering(L, off))]]
       IN segment_Read(s, FileOf(L.files, s.baseOffset), off)

\* Log.Read: store.Read flushes the buffered writer of the segment read
Log_ReadFlush(L, off) ==
  IF Covering(L, off) = {} THEN L
  ELSE LET s == L.seg[L.segments[Min(Covering(L, off))]]
           f == FileOf(L.files, s.baseOffset)
       IN IF s.closed \/ index_Read(s.index, f.index, off - s.baseOffset).err # NoErr
            THEN L
          ELSE [L EXCEPT !.seg[s.baseOffset].store.buf = <<>>,
                         !.files[s.baseOffset].store = Flushed(s.store, @)]

\* Log.Close
Log_Close(L) ==
  [L EXCEPT
     !.seg = [b \in DOMAIN @ |->
                IF b \in Range(L.segments)
                  THEN segment_Close(@[b], FileOf(L.files, b)).s ELSE @[b]],
     !.files = [b \in DOMAIN @ |->
                  IF b \in Range(L.segments)
                    THEN segment_Close(L.seg[b], @[b]).f ELSE @[b]]]

\* Log.LowestOffset and Log.HighestOffset: indexing an empty list panics
Log_LowestOffset(L) ==
  IF L.segments = <<>> THEN [err |-> Panic, off |-> 0]
  ELSE [err |-> NoErr, off |-> L.seg[L.segments[1]].baseOffset]

\* Log.HighestOffset returning nextOffset itself
Log_HighestOffset_NextOffset(L) ==
  IF L.segments = <<>> THEN [err |-> Panic, off |-> 0]
  ELSE [err |-> NoErr, off |-> L.seg[L.segments[Len(L.segments)]].nextOffset]

Log_HighestOffset(L) ==
  IF L.segments = <<>> THEN [err |-> Panic, off |-> 0]
  ELSE LET off == L.seg[L.segments[Len(L.segments)]].nextOffset
       IN [err |-> NoErr, off |-> IF off = 0 THEN 0 ELSE off - 1]

\* the test comparing baseOffset instead of nextOffset
TruncateRemoves_BaseOffset(s, lowest) == s.baseOffset <= lowest

\* the test without the + 1
TruncateRemoves_NoPlusOne(s, lowest) == s.nextOffset <= lowest

\* the test of Log.Truncate's loop: s is removed
TruncateRemoves(s, lowest) == s.nextOffset <= U64(lowest + 1)

\* Log.Truncate removing only the segment that holds lowest
Log_Truncate_OnlyCovering(L, lowest) ==
  LET removed == {b \in Range(L.segments) :
                    L.seg[b].baseOffset <= lowest /\ lowest < L.seg[b].nextOffset}
      closed == [b \in DOMAIN L.seg |->
                   IF b \in removed
                     THEN segment_Close(L.seg[b], FileOf(L.files, b)).s
                   ELSE L.seg[b]]
      kept(b) == b \notin removed
  IN Reachable(
       [files |-> WithoutFiles(L.files, removed),
        seg |-> closed,
        segments |-> SelectSeq(L.segments, kept),
        activeSegment |-> L.activeSegment])

\* Log.Truncate: removed segments are closed and their files deleted;
\* activeSegment is left as it is
Log_Truncate(L, lowest) ==
  LET removed == {b \in Range(L.segments) : TruncateRemoves(L.seg[b], lowest)}
      closed == [b \in DOMAIN L.seg |->
                   IF b \in removed
                     THEN segment_Close(L.seg[b], FileOf(L.files, b)).s
                   ELSE L.seg[b]]
      kept(b) == b \notin removed
  IN Reachable(
       [files |-> WithoutFiles(L.files, removed),
        seg |-> closed,
        segments |-> SelectSeq(L.segments, kept),
        activeSegment |-> L.activeSegment])

\* Log.Remove and Log.Reset: the segments are closed, the directory is
\* deleted, and setup fails on reading the directory
Log_Reset(L) ==
  [L |-> [Log_Close(L) EXCEPT !.files = EmptyDir],
   dirExists |-> FALSE,
   err |-> ErrNotExist]

(***************************************************************************)
(* Log.Reader and grpcServer.ConsumeStream run beside the other calls.     *)
(***************************************************************************)
\* the bytes of the store of the segment object b, as ReadAt sees them after
\* its flush
StoreBytes(L, b) == Flushed(L.seg[b].store, FileOf(L.files, b).store)

\* Log.Reader leaving out the store of the first segment
Log_Reader_SkipsFirst(L) ==
  [stores |-> SubSeq(L.segments, 2, Len(L.segments)), k |-> 1, off |-> 0,
   out |-> <<>>, view |-> <<>>, err |-> NoErr]

\* Log.Reader: one originReader at position 0 for each segment of the list
Log_Reader(L) ==
  [stores |-> L.segments, k |-> 1, off |-> 0, out |-> <<>>, view |-> <<>>,
   err |-> NoErr]

\* io.MultiReader.Read(p) with len(p) = n over originReader.Read: a store
\* that returns fewer than n bytes returns io.EOF and is dropped; bytes
\* already read are returned, otherwise the next store is read
RECURSIVE MultiRead(_, _, _)
MultiRead(L, r, n) ==
  IF r.k > Len(r.stores)
    THEN [r |-> r, b |-> <<>>, err |-> EOF, flushed |-> {}]
  ELSE LET base == r.stores[r.k]
           file == StoreBytes(L, base)
           got == IF Len(file) - r.off < n THEN Len(file) - r.off ELSE n
           b == SubSeq(file, r.off + 1, r.off + got)
       IN IF L.seg[base].closed
            THEN [r |-> r, b |-> <<>>, err |-> ErrClosed, flushed |-> {}]
          ELSE IF got = n
            THEN [r |-> [r EXCEPT !.off = @ + got], b |-> b, err |-> NoErr,
                  flushed |-> {base}]
          ELSE IF got > 0
            THEN [r |-> [r EXCEPT !.k = @ + 1, !.off = 0], b |-> b,
                  err |-> IF r.k = Len(r.stores) THEN EOF ELSE NoErr,
                  flushed |-> {base}]
          ELSE LET next == MultiRead(L, [r EXCEPT !.k = @ + 1, !.off = 0], n)
               IN [next EXCEPT !.flushed = @ \cup {base}]

\* the stores in bases after s.buf.Flush()
FlushStores(L, bases) ==
  [L EXCEPT
     !.files = [b \in DOMAIN @ |->
                  IF b \in bases THEN [@[b] EXCEPT !.store = StoreBytes(L, b)]
                  ELSE @[b]],
     !.seg = [b \in DOMAIN @ |->
                IF b \in bases THEN [@[b] EXCEPT !.store.buf = <<>>] ELSE @[b]]]

\* no Reader call yet: no store to read, nothing yielded
NoReader == [stores |-> <<>>, k |-> 1, off |-> 0, out |-> <<>>, view |-> <<>>,
             err |-> NoErr]

\* no ConsumeStream call yet
NoStream == [state |-> "none", Offset |-> 0, start |-> 0, sent |-> <<>>,
             waitedAt |-> -1, cancelled |-> FALSE, allowed |-> FALSE,
             err |-> NoErr, cancelledIn |-> "none", sentAtCancel |-> 0]

\* no ProduceStream call yet
NoProduceStream == [state |-> "none", allowed |-> FALSE, reqs |-> <<>>,
                    resps |-> <<>>, res |-> 0, err |-> NoErr]

\* sync.RWMutex, not locked
Unlocked == [w |-> FALSE, r |-> 0]

\* no goroutine is inside a call of the Log
Idle == [writer |-> [op |-> "idle", at |-> "idle", arg |-> <<>>],
         reader |-> [op |-> "idle", at |-> "idle", arg |-> 0]]

\* no replicated log
NoCluster == [committed |-> <<>>, node |-> <<>>]

\* &Picker{}: no leader, no followers, current 0; recent keeps what the
\* last calls of nextFollower since the last Build returned, and whether
\* current was the largest uint64 when they were made
NoPicker == [leader |-> "nil", followers |-> <<>>, current |-> 0,
             recent |-> <<>>]

(***************************************************************************)
(* The calls. Every call records what it returned in ret.                  *)
(***************************************************************************)
Ret(op, arg, val, err, off, rec) ==
  [op |-> op, arg |-> arg, val |-> val, err |-> err, off |-> off, rec |-> rec]

SetLog(L) ==
  /\ files' = L.files
  /\ seg' = L.seg
  /\ segments' = L.segments
  /\ activeSegment' = L.activeSegment

\* the offsets and values the callers of the model pass
ReadOffsets == 0..(MaxAppends + 2)
TruncateOffsets == (0..(MaxAppends + 1)) \cup {MaxUint64}

\* NewLog on an existing, empty directory
Init ==
  \E c \in Configs :
    /\ Config = WithDefaults(c)
    /\ dirExists = TRUE
    /\ files = setup(EmptyDir, Config).files
    /\ seg = setup(EmptyDir, Config).seg
    /\ segments = setup(EmptyDir, Config).segments
    /\ activeSegment = setup(EmptyDir, Config).activeSegment
    /\ status = "open"
    /\ ret = Ret("NewLog", 0, <<>>, NoErr, 0, <<>>)
    /\ nAppends = 0
    /\ prevOff = -1
    /\ maxOff = -1
    /\ fresh = TRUE
    /\ reader = NoReader
    /\ stream = NoStream
    /\ produceStream = NoProduceStream
    /\ mu = Unlocked
    /\ pc = Idle
    /\ cluster = NoCluster
    /\ calls = <<>>
    /\ picker = NoPicker

\* Log.Append as called by op; a SIGBUS ends the process
AppendAs(op, value, limit) ==
  LET r == Log_Append(Log, value, Config)
  IN /\ status = "open"
     /\ nAppends < limit
     /\ seg[activeSegment].nextOffset < MaxUint64
     /\ nAppends' = nAppends + 1
     /\ ret' = Ret(op, 0, value, r.err, r.off, <<>>)
     /\ UNCHANGED <<picker, produceStream, mu, pc, cluster, calls, reader, stream, Config, dirExists, fresh>>
     /\ IF r.err = SIGBUS
          THEN /\ status' = "crashed"
               /\ UNCHANGED <<files, seg, segments, activeSegment, prevOff, maxOff>>
        ELSE /\ SetLog(r.L)
             /\ status' = status
             /\ prevOff' = IF r.err = NoErr THEN r.off ELSE prevOff
             /\ maxOff' = IF r.err = NoErr /\ r.off > maxOff THEN r.off ELSE maxOff

\* Log.Read as called by op
ReadAs(op, off) ==
  LET r == Log_Read(Log, off)
  IN /\ status = "open"
     /\ ret' = Ret(op, off, <<>>, r.err, 0, r.rec)
     /\ SetLog(Log_ReadFlush(Log, off))
     /\ UNCHANGED <<picker, produceStream, mu, pc, cluster, calls, reader, stream, Config, dirExists, status, nAppends, prevOff, maxOff, fresh>>

LogAppend(value) == AppendAs("Append", value, MaxAppends)

Read(off) == ReadAs("Read", off)

\* grpcServer.Produce appending without asking the Authorizer
Produce_SkipsAuthorize(value, allowed) == AppendAs("Produce", value, MaxAppends)

\* grpcServer.Produce: allowed is the Authorizer's answer
Produce(value, allowed) ==
  IF allowed THEN AppendAs("Produce", value, MaxAppends)
  ELSE /\ status = "open"
       /\ ret' = Ret("Produce", 0, value, PermissionDenied, 0, <<>>)
       /\ UNCHANGED <<picker, produceStream, mu, pc, cluster, calls, reader, stream, Config, dirExists, files, seg, segments, activeSegment,
                      status, nAppends, prevOff, maxOff, fresh>>

\* grpcServer.Consume
Consume(off, allowed) ==
  IF allowed THEN ReadAs("Consume", off)
  ELSE /\ status = "open"
       /\ ret' = Ret("Consume", off, <<>>, PermissionDenied, 0, <<>>)
       /\ UNCHANGED <<picker, produceStream, mu, pc, cluster, calls, reader, stream, Config, dirExists, files, seg, segments, activeSegment,
                      status, nAppends, prevOff, maxOff, fresh>>

Truncate(lowest) ==
  /\ status = "open"
  /\ SetLog(Log_Truncate(Log, lowest))
  /\ ret' = Ret("Truncate", lowest, <<>>, NoErr, 0, <<>>)
  /\ UNCHANGED <<picker, produceStream, mu, pc, cluster, calls, reader, stream, Config, dirExists, status, nAppends, prevOff, maxOff, fresh>>

Close ==
  /\ status = "open"
  /\ SetLog(Log_Close(Log))
  /\ status' = "closed"
  /\ ret' = Ret("Close", 0, <<>>, NoErr, 0, <<>>)
  /\ UNCHANGED <<picker, produceStream, mu, pc, cluster, calls, reader, stream, Config, dirExists, nAppends, prevOff, maxOff, fresh>>

\* Log.Reset: Remove closes the segments and deletes the directory, then
\* setup fails reading the directory
Reset ==
  /\ status = "open"
  /\ SetLog(Log_Reset(Log).L)
  /\ dirExists' = Log_Reset(Log).dirExists
  /\ status' = "closed"
  /\ ret' = Ret("Reset", 0, <<>>, Log_Reset(Log).err, 0, <<>>)
  /\ UNCHANGED <<picker, produceStream, mu, pc, cluster, calls, reader, stream, Config, nAppends, prevOff, maxOff, fresh>>

\* NewLog on the directory of a closed Log, with the same configuration
NewLog ==
  /\ status = "closed"
  /\ IF dirExists
       THEN /\ SetLog(setup(files, Config))
            /\ status' = "open"
            /\ ret' = Ret("NewLog", 0, <<>>, NoErr, 0, <<>>)
            /\ fresh' = (DOMAIN files = {})
            /\ prevOff' = -1
            /\ maxOff' = maxOff
            /\ UNCHANGED <<picker, produceStream, mu, pc, cluster, calls, reader, stream, Config, dirExists, nAppends>>
     ELSE /\ ret' = Ret("NewLog", 0, <<>>, ErrNotExist, 0, <<>>)
          /\ UNCHANGED <<picker, produceStream, mu, pc, cluster, calls, reader, stream, Config, dirExists, files, seg, segments, activeSegment,
                         status, nAppends, prevOff, maxOff, fresh>>

LowestOffset ==
  /\ status = "open"
  /\ ret' = Ret("LowestOffset", 0, <<>>, Log_LowestOffset(Log).err,
                Log_LowestOffset(Log).off, <<>>)
  /\ status' = IF Log_LowestOffset(Log).err = Panic THEN "crashed" ELSE status
  /\ UNCHANGED <<picker, produceStream, mu, pc, cluster, calls, reader, stream, Config, dirExists, files, seg, segments, activeSegment,
                 nAppends, prevOff, maxOff, fresh>>

HighestOffset ==
  /\ status = "open"
  /\ ret' = Ret("HighestOffset", 0, <<>>, Log_HighestOffset(Log).err,
                Log_HighestOffset(Log).off, <<>>)
  /\ status' = IF Log_HighestOffset(Log).err = Panic THEN "crashed" ELSE status
  /\ UNCHANGED <<picker, produceStream, mu, pc, cluster, calls, reader, stream, Config, dirExists, files, seg, segments, activeSegment,
                 nAppends, prevOff, maxOff, fresh>>

\* the Log used through its own methods
Next ==
  \/ \E value \in Values : LogAppend(value)
  \/ \E off \in ReadOffsets : Read(off)
  \/ \E lowest \in TruncateOffsets : Truncate(lowest)
  \/ Close
  \/ Reset
  \/ NewLog
  \/ LowestOffset
  \/ HighestOffset

Spec == Init /\ [][Next]_vars

\* the Log behind the gRPC server; the log store underneath may be truncated
NextServer ==
  \/ \E value \in Values, allowed \in BOOLEAN : Produce(value, allowed)
  \/ \E off \in ReadOffsets, allowed \in BOOLEAN : Consume(off, allowed)
  \/ \E lowest \in TruncateOffsets : Truncate(lowest)

SpecServer == Init /\ [][NextServer]_vars

\* a Log of four-record segments filled with up to MaxLongAppends records
InitLong ==
  /\ Config = WithDefaults(LongConfig)
  /\ dirExists = TRUE
  /\ files = setup(EmptyDir, Config).files
  /\ seg = setup(EmptyDir, Config).seg
  /\ segments = setup(EmptyDir, Config).segments
  /\ activeSegment = setup(EmptyDir, Config).activeSegment
  /\ status = "open"
  /\ ret = Ret("NewLog", 0, <<>>, NoErr, 0, <<>>)
  /\ nAppends = 0
  /\ prevOff = -1
  /\ maxOff = -1
  /\ fresh = TRUE
  /\ reader = NoReader
  /\ stream = NoStream
  /\ produceStream = NoProduceStream
  /\ mu = Unlocked
  /\ pc = Idle
  /\ cluster = NoCluster
  /\ calls = <<>>
  /\ picker = NoPicker

LongAppend == AppendAs("Append", <<7>>, MaxLongAppends)

NextLong ==
  \/ LongAppend
  \/ \E off \in 0..(MaxLongAppends + 1) : Read(off)
  \/ \E lowest \in (0..(MaxLongAppends + 1)) \cup {MaxUint64} : Truncate(lowest)
  \/ LowestOffset

SpecLong == InitLong /\ [][NextLong]_vars

\* NewLog on the directory of a closed Log with a configuration whose index
\* is no smaller than the one the files were written with
Reopen(c) ==
  /\ status = "closed"
  /\ dirExists
  /\ WithDefaults(c).MaxIndexBytes >= Config.MaxIndexBytes
  /\ Config' = WithDefaults(c)
  /\ SetLog(setup(files, WithDefaults(c)))
  /\ status' = "open"
  /\ ret' = Ret("NewLog", 0, <<>>, NoErr, 0, <<>>)
  /\ fresh' = (DOMAIN files = {})
  /\ prevOff' = -1
  /\ maxOff' = maxOff
  /\ UNCHANGED <<picker, produceStream, mu, pc, cluster, calls, reader, stream, dirExists, nAppends>>

\* a Log whose index file cannot hold an entry until it is reopened with a
\* larger MaxIndexBytes
InitReconf ==
  /\ Config = WithDefaults(SmallIndexConfig)
  /\ dirExists = TRUE
  /\ files = setup(EmptyDir, Config).files
  /\ seg = setup(EmptyDir, Config).seg
  /\ segments = setup(EmptyDir, Config).segments
  /\ activeSegment = setup(EmptyDir, Config).activeSegment
  /\ status = "open"
  /\ ret = Ret("NewLog", 0, <<>>, NoErr, 0, <<>>)
  /\ nAppends = 0
  /\ prevOff = -1
  /\ maxOff = -1
  /\ fresh = TRUE
  /\ reader = NoReader
  /\ stream = NoStream
  /\ produceStream = NoProduceStream
  /\ mu = Unlocked
  /\ pc = Idle
  /\ cluster = NoCluster
  /\ calls = <<>>
  /\ picker = NoPicker

NextReconf ==
  \/ \E value \in Values : LogAppend(value)
  \/ \E off \in ReadOffsets : Read(off)
  \/ Close
  \/ \E c \in ReopenConfigs : Reopen(c)

SpecReconf == InitReconf /\ [][NextReconf]_vars

\* a Log with MaxStoreBytes = 32 taking records of 28 and more bytes
InitStore ==
  /\ Config = WithDefaults(StoreConfig)
  /\ dirExists = TRUE
  /\ files = setup(EmptyDir, Config).files
  /\ seg = setup(EmptyDir, Config).seg
  /\ segments = setup(EmptyDir, Config).segments
  /\ activeSegment = setup(EmptyDir, Config).activeSegment
  /\ status = "open"
  /\ ret = Ret("NewLog", 0, <<>>, NoErr, 0, <<>>)
  /\ nAppends = 0
  /\ prevOff = -1
  /\ maxOff = -1
  /\ fresh = TRUE
  /\ reader = NoReader
  /\ stream = NoStream
  /\ produceStream = NoProduceStream
  /\ mu = Unlocked
  /\ pc = Idle
  /\ cluster = NoCluster
  /\ calls = <<>>
  /\ picker = NoPicker

NextStore ==
  \/ \E value \in StoreValues : LogAppend(value)
  \/ \E off \in ReadOffsets : Read(off)
  \/ Close
  \/ NewLog
  \/ LowestOffset
  \/ HighestOffset

SpecStore == InitStore /\ [][NextStore]_vars

\* the bytes of every store of the list, in order
RECURSIVE StoresBytes(_, _)
StoresBytes(L, bases) ==
  IF bases = <<>> THEN <<>>
  ELSE StoreBytes(L, bases[1]) \o StoresBytes(L, SubSeq(bases, 2, Len(bases)))

\* Log.Reader; view keeps the bytes the stores hold when Reader returns
Reader ==
  /\ status = "open"
  /\ reader' = [Log_Reader(Log) EXCEPT !.view = StoresBytes(Log, segments)]
  /\ ret' = Ret("Reader", 0, <<>>, NoErr, 0, <<>>)
  /\ UNCHANGED <<picker, produceStream, mu, pc, cluster, calls, stream, Config, dirExists, files, seg, segments, activeSegment,
                 status, nAppends, prevOff, maxOff, fresh>>

\* the buffer sizes the reader is read with: 8 bytes, 1024 bytes
ReadSizes == {lenWidth, DefaultMaxBytes}

\* one Read(p) on the reader of Log.Reader, len(p) = n
ReaderRead(n) ==
  LET m == MultiRead(Log, reader, n)
  IN /\ status = "open"
     /\ reader.stores # <<>>
     /\ reader.err = NoErr
     /\ reader' = [m.r EXCEPT !.out = @ \o m.b, !.err = m.err]
     /\ SetLog(FlushStores(Log, m.flushed))
     /\ ret' = Ret("ReaderRead", n, <<>>, m.err, 0, <<>>)
     /\ UNCHANGED <<picker, produceStream, mu, pc, cluster, calls, stream, Config, dirExists, status, nAppends, prevOff, maxOff, fresh>>

\* the records of a snapshot stream: length-prefixed marshalled records
RECURSIVE ParseRecords(_)
ParseRecords(b) ==
  IF Len(b) < lenWidth THEN <<>>
  ELSE LET n == Uint(SubSeq(b, 1, lenWidth))
       IN <<Unmarshal(SubSeq(b, lenWidth + 1, lenWidth + n)).record>>
          \o ParseRecords(SubSeq(b, lenWidth + n + 1, Len(b)))

\* re-appending the records of a snapshot in order
RECURSIVE Reappend(_, _, _)
Reappend(L, records, c) ==
  IF records = <<>> THEN L
  ELSE Reappend(Log_Append(L, records[1].Value, c).L,
                SubSeq(records, 2, Len(records)), c)

\* restore(reader) of the replicated log on a snapshot of the whole log:
\* InitialOffset is seeded with the first offset of the stream, the Log is
\* reset, the records are re-appended
Restore ==
  LET records == ParseRecords(StoresBytes(Log, segments))
      c == IF records = <<>> THEN Config
           ELSE [Config EXCEPT !.InitialOffset = records[1].Offset]
      r == Log_Reset(Log)
  IN /\ status = "open"
     /\ Config' = c
     /\ ret' = Ret("Restore", 0, <<>>, r.err, 0, <<>>)
     /\ dirExists' = r.dirExists
     /\ IF r.err # NoErr
          THEN SetLog(r.L) /\ status' = "closed"
        ELSE SetLog(Reappend(r.L, records, c)) /\ status' = "open"
     /\ UNCHANGED <<picker, produceStream, mu, pc, cluster, calls, reader, stream, nAppends, prevOff, maxOff, fresh>>

\* a Log that is snapshotted through Log.Reader while it is appended to
NextReader ==
  \/ \E value \in Values : LogAppend(value)
  \/ Reader
  \/ \E n \in ReadSizes : ReaderRead(n)
  \/ Restore

SpecReader == Init /\ [][NextReader]_vars

\* grpcServer.ConsumeStream is called: the handler starts with req.Offset
ConsumeStream(start, allowed) ==
  /\ status = "open"
  /\ stream.state = "none"
  /\ stream' = [NoStream EXCEPT !.state = "running", !.Offset = start,
                                !.start = start, !.allowed = allowed]
  /\ ret' = Ret("ConsumeStream", start, <<>>, NoErr, 0, <<>>)
  /\ UNCHANGED <<picker, produceStream, mu, pc, cluster, calls, reader, Config, dirExists, files, seg, segments, activeSegment,
                 status, nAppends, prevOff, maxOff, fresh>>

\* the stream context is cancelled, at the select or inside its default
\* branch; cancelledIn and sentAtCancel keep where the handler was
Cancel ==
  /\ stream.state \in {"running", "default"}
  /\ ~stream.cancelled
  /\ stream' = [stream EXCEPT !.cancelled = TRUE, !.cancelledIn = stream.state,
                               !.sentAtCancel = Len(stream.sent)]
  /\ UNCHANGED <<picker, produceStream, mu, pc, cluster, calls, reader, Config, dirExists, files, seg, segments, activeSegment,
                 status, ret, nAppends, prevOff, maxOff, fresh>>

\* one iteration of ConsumeStream's loop that stops polling once an offset
\* was out of range
StreamStep_BlocksAfterOutOfRange ==
  LET r == Log_Read(Log, stream.Offset)
  IN /\ status = "open"
     /\ stream.state = "running"
     /\ UNCHANGED <<picker, produceStream, mu, pc, cluster, calls, reader, Config, dirExists, status, ret, nAppends, prevOff, maxOff, fresh>>
     /\ IF stream.cancelled
          THEN /\ stream' = [stream EXCEPT !.state = "done"]
               /\ UNCHANGED <<files, seg, segments, activeSegment>>
        ELSE IF ~stream.allowed
          THEN /\ stream' = [stream EXCEPT !.state = "done", !.err = PermissionDenied]
               /\ UNCHANGED <<files, seg, segments, activeSegment>>
        ELSE IF stream.waitedAt = stream.Offset
          THEN UNCHANGED <<stream, files, seg, segments, activeSegment>>
        ELSE IF r.err = NoErr
          THEN /\ stream' = [stream EXCEPT !.sent = @ \o r.rec, !.Offset = @ + 1]
               /\ SetLog(Log_ReadFlush(Log, stream.Offset))
        ELSE IF r.err = ErrOffsetOutOfRange(stream.Offset)
          THEN /\ stream' = [stream EXCEPT !.waitedAt = stream.Offset]
               /\ UNCHANGED <<files, seg, segments, activeSegment>>
        ELSE /\ stream' = [stream EXCEPT !.state = "done", !.err = r.err]
             /\ SetLog(Log_ReadFlush(Log, stream.Offset))

\* one iteration of ConsumeStream's loop that advances req.Offset by two
StreamStep_SkipsOffset ==
  LET r == Log_Read(Log, stream.Offset)
  IN /\ status = "open"
     /\ stream.state = "running"
     /\ UNCHANGED <<picker, produceStream, mu, pc, cluster, calls, reader, Config, dirExists, status, ret, nAppends, prevOff, maxOff, fresh>>
     /\ IF stream.cancelled
          THEN /\ stream' = [stream EXCEPT !.state = "done"]
               /\ UNCHANGED <<files, seg, segments, activeSegment>>
        ELSE IF ~stream.allowed
          THEN /\ stream' = [stream EXCEPT !.state = "done", !.err = PermissionDenied]
               /\ UNCHANGED <<files, seg, segments, activeSegment>>
        ELSE IF r.err = NoErr
          THEN /\ stream' = [stream EXCEPT !.sent = @ \o r.rec, !.Offset = @ + 2]
               /\ SetLog(Log_ReadFlush(Log, stream.Offset))
        ELSE IF r.err = ErrOffsetOutOfRange(stream.Offset)
          THEN /\ stream' = [stream EXCEPT !.waitedAt = stream.Offset]
               /\ UNCHANGED <<files, seg, segments, activeSegment>>
        ELSE /\ stream' = [stream EXCEPT !.state = "done", !.err = r.err]
             /\ SetLog(Log_ReadFlush(Log, stream.Offset))

\* one iteration of ConsumeStream's loop: return nil when the context is
\* done; otherwise Consume, send the record and advance, poll again on
\* ErrOffsetOutOfRange, return any other error
StreamStep ==
  LET r == Log_Read(Log, stream.Offset)
  IN /\ status = "open"
     /\ stream.state = "running"
     /\ UNCHANGED <<picker, produceStream, mu, pc, cluster, calls, reader, Config, dirExists, status, ret, nAppends, prevOff, maxOff, fresh>>
     /\ IF stream.cancelled
          THEN /\ stream' = [stream EXCEPT !.state = "done"]
               /\ UNCHANGED <<files, seg, segments, activeSegment>>
        ELSE IF ~stream.allowed
          THEN /\ stream' = [stream EXCEPT !.state = "done", !.err = PermissionDenied]
               /\ UNCHANGED <<files, seg, segments, activeSegment>>
        ELSE IF r.err = NoErr
          THEN /\ stream' = [stream EXCEPT !.sent = @ \o r.rec, !.Offset = @ + 1]
               /\ SetLog(Log_ReadFlush(Log, stream.Offset))
        ELSE IF r.err = ErrOffsetOutOfRange(stream.Offset)
          THEN /\ stream' = [stream EXCEPT !.waitedAt = stream.Offset]
               /\ UNCHANGED <<files, seg, segments, activeSegment>>
        ELSE /\ stream' = [stream EXCEPT !.state = "done", !.err = r.err]
             /\ SetLog(Log_ReadFlush(Log, stream.Offset))

\* the offsets streams start from
StreamStarts == 0..MaxAppends

\* the gRPC server with one ConsumeStream beside Produce calls
NextStream ==
  \/ \E value \in Values, allowed \in BOOLEAN : Produce(value, allowed)
  \/ \E start \in StreamStarts, allowed \in BOOLEAN : ConsumeStream(start, allowed)
  \/ StreamStep
  \/ Cancel

SpecStream == Init /\ [][NextStream]_vars

\* the tailing stream: one authorized producer of up to MaxTailAppends
\* records beside the stream
TailStarts == 0..MaxTailAppends

TailProduce == AppendAs("Produce", <<7>>, MaxTailAppends)

NextTail ==
  \/ TailProduce
  \/ \E start \in TailStarts, allowed \in BOOLEAN : ConsumeStream(start, allowed)
  \/ StreamStep
  \/ Cancel

\* the handler's goroutine is scheduled again and again
SpecStreamFair == InitLong /\ [][NextTail]_vars /\ WF_vars(StreamStep)

\* the select of ConsumeStream's loop, never taking the Done case
StreamSelect_IgnoresDone ==
  /\ status = "open"
  /\ stream.state = "running"
  /\ stream' = [stream EXCEPT !.state = "default"]
  /\ UNCHANGED <<picker, produceStream, mu, pc, cluster, calls, reader, Config, dirExists,
                 files, seg, segments, activeSegment, status, ret, nAppends,
                 prevOff, maxOff, fresh>>

\* the select of ConsumeStream's loop: return nil when the context is done,
\* otherwise enter the default branch
StreamSelect ==
  /\ status = "open"
  /\ stream.state = "running"
  /\ stream' = IF stream.cancelled THEN [stream EXCEPT !.state = "done"]
               ELSE [stream EXCEPT !.state = "default"]
  /\ UNCHANGED <<picker, produceStream, mu, pc, cluster, calls, reader, Config, dirExists,
                 files, seg, segments, activeSegment, status, ret, nAppends,
                 prevOff, maxOff, fresh>>

\* the default branch of the select: Consume, then poll again on
\* ErrOffsetOutOfRange, return any other error, or Send the record and
\* advance req.Offset; sendOk is whether stream.Send succeeds
StreamDefault(sendOk) ==
  LET r == Log_Read(Log, stream.Offset)
  IN /\ status = "open"
     /\ stream.state = "default"
     /\ UNCHANGED <<picker, produceStream, mu, pc, cluster, calls, reader, Config,
                    dirExists, status, ret, nAppends, prevOff, maxOff, fresh>>
     /\ IF ~stream.allowed
          THEN /\ stream' = [stream EXCEPT !.state = "done", !.err = PermissionDenied]
               /\ UNCHANGED <<files, seg, segments, activeSegment>>
        ELSE IF r.err = NoErr
          THEN /\ stream' = IF sendOk
                              THEN [stream EXCEPT !.state = "running",
                                                  !.sent = @ \o r.rec,
                                                  !.Offset = @ + 1]
                            ELSE [stream EXCEPT !.state = "done", !.err = ErrTransport]
               /\ SetLog(Log_ReadFlush(Log, stream.Offset))
        ELSE IF r.err = ErrOffsetOutOfRange(stream.Offset)
          THEN /\ stream' = [stream EXCEPT !.state = "running",
                                           !.waitedAt = stream.Offset]
               /\ UNCHANGED <<files, seg, segments, activeSegment>>
        ELSE /\ stream' = [stream EXCEPT !.state = "done", !.err = r.err]
             /\ SetLog(Log_ReadFlush(Log, stream.Offset))

\* the stream beside one authorized producer, its loop taken statement by
\* statement, so that the context can be cancelled inside an iteration
NextCancel ==
  \/ TailProduce
  \/ \E start \in TailStarts, allowed \in BOOLEAN : ConsumeStream(start, allowed)
  \/ StreamSelect
  \/ \E sendOk \in BOOLEAN : StreamDefault(sendOk)
  \/ Cancel

\* the handler's goroutine is scheduled again and again
SpecCancelFair ==
  /\ InitLong
  /\ [][NextCancel]_vars
  /\ WF_vars(StreamSelect)
  /\ WF_vars(\E sendOk \in BOOLEAN : StreamDefault(sendOk))

\* grpcServer.ProduceStream is called: the handler is about to Recv; allowed
\* is the Authorizer's answer for the subject of the stream
ProduceStream(allowed) ==
  /\ status = "open"
  /\ produceStream.state = "none"
  /\ produceStream' = [NoProduceStream EXCEPT !.state = "recv", !.allowed = allowed]
  /\ ret' = Ret("ProduceStream", 0, <<>>, NoErr, 0, <<>>)
  /\ UNCHANGED <<picker, mu, pc, cluster, calls, reader, stream, Config, dirExists, files,
                 seg, segments, activeSegment, status, nAppends, prevOff, maxOff, fresh>>

\* stream.Recv: the next request, or io.EOF once the client closed the stream
ProduceStreamRecv(value, ok) ==
  /\ status = "open"
  /\ produceStream.state = "recv"
  /\ produceStream' = IF ok THEN [produceStream EXCEPT !.state = "produce",
                                                       !.reqs = Append(@, value)]
                      ELSE [produceStream EXCEPT !.state = "done", !.err = EOF]
  /\ UNCHANGED <<picker, mu, pc, cluster, calls, reader, stream, Config, dirExists, files,
                 seg, segments, activeSegment, status, ret, nAppends, prevOff, maxOff, fresh>>

\* s.Produce on the request just received: Authorize, then CommitLog.Append
ProduceStreamProduce ==
  LET value == produceStream.reqs[Len(produceStream.reqs)]
      r == Log_Append(Log, value, Config)
  IN /\ status = "open"
     /\ produceStream.state = "produce"
     /\ UNCHANGED <<picker, mu, pc, cluster, calls, reader, stream, Config, dirExists, fresh>>
     /\ IF ~produceStream.allowed
          THEN /\ produceStream' = [produceStream EXCEPT !.state = "done",
                                                         !.err = PermissionDenied]
               /\ ret' = Ret("ProduceStream", 0, value, PermissionDenied, 0, <<>>)
               /\ UNCHANGED <<files, seg, segments, activeSegment, status,
                              nAppends, prevOff, maxOff>>
        ELSE /\ nAppends < MaxAppends
             /\ seg[activeSegment].nextOffset < MaxUint64
             /\ nAppends' = nAppends + 1
             /\ ret' = Ret("ProduceStream", 0, value, r.err, r.off, <<>>)
             /\ IF r.err = SIGBUS
                  THEN /\ status' = "crashed"
                       /\ UNCHANGED <<produceStream, files, seg, segments,
                                      activeSegment, prevOff, maxOff>>
                ELSE /\ SetLog(r.L)
                     /\ status' = status
                     /\ prevOff' = IF r.err = NoErr THEN r.off ELSE prevOff
                     /\ maxOff' = IF r.err = NoErr /\ r.off > maxOff THEN r.off ELSE maxOff
                     /\ produceStream' =
                          IF r.err = NoErr
                            THEN [produceStream EXCEPT !.state = "send", !.res = r.off]
                          ELSE [produceStream EXCEPT !.state = "done", !.err = r.err]

\* stream.Send that loses the response
ProduceStreamSend_DropsResponse(ok) ==
  /\ status = "open"
  /\ produceStream.state = "send"
  /\ produceStream' = IF ok THEN [produceStream EXCEPT !.state = "recv"]
                      ELSE [produceStream EXCEPT !.state = "done",
                                                 !.err = ErrTransport]
  /\ UNCHANGED <<picker, mu, pc, cluster, calls, reader, stream, Config, dirExists, files,
                 seg, segments, activeSegment, status, ret, nAppends, prevOff, maxOff, fresh>>

\* stream.Send of the response; ok is whether it succeeds
ProduceStreamSend(ok) ==
  /\ status = "open"
  /\ produceStream.state = "send"
  /\ produceStream' = IF ok THEN [produceStream EXCEPT !.state = "recv",
                                                       !.resps = Append(@, produceStream.res)]
                      ELSE [produceStream EXCEPT !.state = "done",
                                                 !.err = ErrTransport]
  /\ UNCHANGED <<picker, mu, pc, cluster, calls, reader, stream, Config, dirExists, files,
                 seg, segments, activeSegment, status, ret, nAppends, prevOff, maxOff, fresh>>

\* one ProduceStream beside the Produce calls of other clients
NextProduceStream ==
  \/ \E value \in Values, allowed \in BOOLEAN : Produce(value, allowed)
  \/ \E allowed \in BOOLEAN : ProduceStream(allowed)
  \/ \E value \in Values, ok \in BOOLEAN : ProduceStreamRecv(value, ok)
  \/ ProduceStreamProduce
  \/ \E ok \in BOOLEAN : ProduceStreamSend(ok)

SpecProduceStream == Init /\ [][NextProduceStream]_vars

\* the four handlers of the gRPC server, called by subjects the Authorizer
\* allows and by subjects it denies, over a log of up to MaxTailAppends
\* records
NextAuth ==
  \/ nAppends < MaxTailAppends /\ \E allowed \in BOOLEAN : Produce(<<7>>, allowed)
  \/ \E off \in TailStarts, allowed \in BOOLEAN : Consume(off, allowed)
  \/ \E allowed \in BOOLEAN : ProduceStream(allowed)
  \/ ProduceStreamRecv(<<8, 8>>, TRUE)
  \/ nAppends < MaxTailAppends /\ ProduceStreamProduce
  \/ ProduceStreamSend(TRUE)
  \/ \E allowed \in BOOLEAN : ConsumeStream(0, allowed)
  \/ StreamSelect
  \/ StreamDefault(TRUE)

SpecAuth == InitLong /\ [][NextAuth]_vars

\* the process is killed: no Close runs, so what the buffered writers hold is
\* lost and every index file keeps the length newIndex truncated it to; the
\* entries written through the MAP_SHARED mappings stay in the files
Kill ==
  /\ status = "open"
  /\ status' = "crashed"
  /\ ret' = Ret("Kill", 0, <<>>, NoErr, 0, <<>>)
  /\ UNCHANGED <<picker, produceStream, mu, pc, cluster, calls, reader, stream, Config,
                 dirExists, files, seg, segments, activeSegment, nAppends,
                 prevOff, maxOff, fresh>>

\* NewLog on the directory a killed process left, with the same configuration
NewLogAfterKill ==
  /\ status = "crashed"
  /\ ret.op = "Kill"
  /\ dirExists
  /\ SetLog(setup(files, Config))
  /\ status' = "open"
  /\ ret' = Ret("NewLogAfterKill", 0, <<>>, NoErr, 0, <<>>)
  /\ fresh' = (DOMAIN files = {})
  /\ prevOff' = -1
  /\ maxOff' = maxOff
  /\ UNCHANGED <<picker, produceStream, mu, pc, cluster, calls, reader, stream, Config,
                 dirExists, nAppends>>

\* a Log whose process may be killed and started again
NextCrash ==
  \/ \E value \in Values : LogAppend(value)
  \/ \E off \in ReadOffsets : Read(off)
  \/ Kill
  \/ NewLogAfterKill
  \/ HighestOffset

SpecCrash == Init /\ [][NextCrash]_vars

(***************************************************************************)
(* Two goroutines on one Log: one calls the methods that take l.mu.Lock,   *)
(* the other the methods that take l.mu.RLock. pc.<g>.at is the statement  *)
(* the goroutine is about to execute.                                      *)
(***************************************************************************)
\* everything the calls of the goroutines leave alone
LockFrame == <<picker, produceStream, cluster, calls, stream, Config, fresh>>

\* a goroutine calls Append(arg), Truncate(arg[1]) or Reset()
WriterCall(op, arg) ==
  /\ status = "open"
  /\ pc.writer.op = "idle"
  /\ op = "Append" => /\ nAppends < MaxAppends
                      /\ seg[activeSegment].nextOffset < MaxUint64
  /\ pc' = [pc EXCEPT !.writer = [op |-> op, at |-> "Lock", arg |-> arg]]
  /\ UNCHANGED <<LockFrame, mu, reader, dirExists, files, seg, segments,
                 activeSegment, status, ret, nAppends, prevOff, maxOff>>

\* l.mu.Lock(): waits until no lock is held
WriterLock ==
  /\ status # "crashed"
  /\ pc.writer.at = "Lock"
  /\ ~mu.w
  /\ mu.r = 0
  /\ mu' = [mu EXCEPT !.w = TRUE]
  /\ pc' = [pc EXCEPT !.writer.at = "locked"]
  /\ UNCHANGED <<LockFrame, reader, dirExists, files, seg, segments,
                 activeSegment, status, ret, nAppends, prevOff, maxOff>>

\* the statements between Lock and the deferred Unlock: of Log.Append, of
\* Log.Truncate, or of the Log.Close that Reset calls through Remove
WriterLocked ==
  LET a == Log_Append(Log, pc.writer.arg, Config)
  IN /\ status # "crashed"
     /\ pc.writer.at = "locked"
     /\ pc' = [pc EXCEPT !.writer.at = "Unlock"]
     /\ UNCHANGED <<LockFrame, mu, reader, dirExists>>
     /\ CASE pc.writer.op = "Append" ->
               /\ nAppends' = nAppends + 1
               /\ ret' = Ret("Append", 0, pc.writer.arg, a.err, a.off, <<>>)
               /\ IF a.err = SIGBUS
                    THEN /\ status' = "crashed"
                         /\ UNCHANGED <<files, seg, segments, activeSegment, prevOff, maxOff>>
                  ELSE /\ SetLog(a.L)
                       /\ status' = status
                       /\ prevOff' = IF a.err = NoErr THEN a.off ELSE prevOff
                       /\ maxOff' = IF a.err = NoErr /\ a.off > maxOff THEN a.off ELSE maxOff
          [] pc.writer.op = "Truncate" ->
               /\ SetLog(Log_Truncate(Log, pc.writer.arg[1]))
               /\ ret' = Ret("Truncate", pc.writer.arg[1], <<>>, NoErr, 0, <<>>)
               /\ UNCHANGED <<status, nAppends, prevOff, maxOff>>
          [] pc.writer.op = "Reset" ->
               /\ SetLog(Log_Close(Log))
               /\ UNCHANGED <<status, ret, nAppends, prevOff, maxOff>>

\* the deferred l.mu.Unlock(): Append and Truncate return; Reset is back in
\* Remove, in front of os.RemoveAll
WriterUnlock ==
  /\ status # "crashed"
  /\ pc.writer.at = "Unlock"
  /\ mu' = [mu EXCEPT !.w = FALSE]
  /\ pc' = IF pc.writer.op = "Reset" THEN [pc EXCEPT !.writer.at = "RemoveAll"]
           ELSE [pc EXCEPT !.writer = Idle.writer]
  /\ UNCHANGED <<LockFrame, reader, dirExists, files, seg, segments,
                 activeSegment, status, ret, nAppends, prevOff, maxOff>>

\* os.RemoveAll(l.Dir) of Log.Remove
ResetRemoveAll ==
  /\ status # "crashed"
  /\ pc.writer.at = "RemoveAll"
  /\ files' = EmptyDir
  /\ dirExists' = FALSE
  /\ pc' = [pc EXCEPT !.writer.at = "setup"]
  /\ UNCHANGED <<LockFrame, mu, reader, seg, segments, activeSegment, status,
                 ret, nAppends, prevOff, maxOff>>

\* l.setup() of Log.Reset: ioutil.ReadDir fails on the deleted directory and
\* Reset returns its error
ResetSetup ==
  /\ status # "crashed"
  /\ pc.writer.at = "setup"
  /\ ret' = Ret("Reset", 0, <<>>, ErrNotExist, 0, <<>>)
  /\ status' = "closed"
  /\ pc' = [pc EXCEPT !.writer = Idle.writer]
  /\ UNCHANGED <<LockFrame, mu, reader, dirExists, files, seg, segments,
                 activeSegment, nAppends, prevOff, maxOff>>

\* a goroutine calls Read(arg), LowestOffset(), HighestOffset() or Reader()
ReaderCall(op, arg) ==
  /\ status = "open"
  /\ pc.reader.op = "idle"
  /\ pc' = [pc EXCEPT !.reader = [op |-> op, at |-> "RLock", arg |-> arg]]
  /\ UNCHANGED <<LockFrame, mu, reader, dirExists, files, seg, segments,
                 activeSegment, status, ret, nAppends, prevOff, maxOff>>

\* l.mu.RLock(): waits while the write lock is held
ReaderRLock ==
  /\ status # "crashed"
  /\ pc.reader.at = "RLock"
  /\ ~mu.w
  /\ mu' = [mu EXCEPT !.r = @ + 1]
  /\ pc' = [pc EXCEPT !.reader.at = "rlocked"]
  /\ UNCHANGED <<LockFrame, reader, dirExists, files, seg, segments,
                 activeSegment, status, ret, nAppends, prevOff, maxOff>>

\* the statements between RLock and the deferred RUnlock
ReaderRLocked ==
  LET off == pc.reader.arg
      r == Log_Read(Log, off)
      lo == Log_LowestOffset(Log)
      hi == Log_HighestOffset(Log)
  IN /\ status # "crashed"
     /\ pc.reader.at = "rlocked"
     /\ pc' = [pc EXCEPT !.reader.at = "RUnlock"]
     /\ UNCHANGED <<LockFrame, mu, dirExists, nAppends, prevOff, maxOff>>
     /\ CASE pc.reader.op = "Read" ->
               /\ ret' = Ret("Read", off, <<>>, r.err, 0, r.rec)
               /\ SetLog(Log_ReadFlush(Log, off))
               /\ UNCHANGED <<reader, status>>
          [] pc.reader.op = "LowestOffset" ->
               /\ ret' = Ret("LowestOffset", 0, <<>>, lo.err, lo.off, <<>>)
               /\ status' = IF lo.err = Panic THEN "crashed" ELSE status
               /\ UNCHANGED <<reader, files, seg, segments, activeSegment>>
          [] pc.reader.op = "HighestOffset" ->
               /\ ret' = Ret("HighestOffset", 0, <<>>, hi.err, hi.off, <<>>)
               /\ status' = IF hi.err = Panic THEN "crashed" ELSE status
               /\ UNCHANGED <<reader, files, seg, segments, activeSegment>>
          [] pc.reader.op = "Reader" ->
               /\ reader' = [Log_Reader(Log) EXCEPT !.view = StoresBytes(Log, segments)]
               /\ ret' = Ret("Reader", 0, <<>>, NoErr, 0, <<>>)
               /\ UNCHANGED <<files, seg, segments, activeSegment, status>>

\* the deferred l.mu.RUnlock(): the call returns
ReaderRUnlock ==
  /\ status # "crashed"
  /\ pc.reader.at = "RUnlock"
  /\ mu' = [mu EXCEPT !.r = @ - 1]
  /\ pc' = [pc EXCEPT !.reader = Idle.reader]
  /\ UNCHANGED <<LockFrame, reader, dirExists, files, seg, segments,
                 activeSegment, status, ret, nAppends, prevOff, maxOff>>

\* the calls of the two goroutines
WriterCalls ==
  {<<"Append", <<7>>>>}
    \cup {<<"Truncate", <<lowest>>>> : lowest \in TailStarts}
    \cup {<<"Reset", <<>>>>}
ReaderCalls ==
  {<<"Read", off>> : off \in TailStarts}
    \cup {<<"LowestOffset", 0>>, <<"HighestOffset", 0>>, <<"Reader", 0>>}

NextLock ==
  \/ \E c \in WriterCalls : WriterCall(c[1], c[2])
  \/ WriterLock
  \/ WriterLocked
  \/ WriterUnlock
  \/ ResetRemoveAll
  \/ ResetSetup
  \/ \E c \in ReaderCalls : ReaderCall(c[1], c[2])
  \/ ReaderRLock
  \/ ReaderRLocked
  \/ ReaderRUnlock

SpecLock == InitLong /\ [][NextLock]_vars

(***************************************************************************)
(* The store of the Log's first segment used on its own: calls keeps the   *)
(* payload, the position and the byte count of every successful Append.    *)
(***************************************************************************)
\* the payloads given to store.Append
Payloads == {<<>>, <<7>>, <<8, 8>>}

\* store.Append(p) on a file that accepts every write
StoreAppend(p) ==
  LET a == store_Append(seg[activeSegment].store, p)
  IN /\ status = "open"
     /\ Len(calls) < MaxAppends
     /\ seg' = [seg EXCEPT ![activeSegment].store = a.store]
     /\ calls' = IF a.err = NoErr
                   THEN Append(calls, [p |-> p, pos |-> a.pos, n |-> a.n])
                 ELSE calls
     /\ ret' = Ret("store.Append", a.n, p, a.err, a.pos, <<>>)
     /\ UNCHANGED <<picker, produceStream, mu, pc, cluster, reader, stream, Config,
                    dirExists, files, segments, activeSegment, status, nAppends,
                    prevOff, maxOff, fresh>>

\* store.Append(p) while the file rejects a write
StoreAppendFails(p, stage, k) ==
  LET a == store_AppendFails(seg[activeSegment].store, p, stage, k)
  IN /\ status = "open"
     /\ seg[activeSegment].store.werr = NoErr
     /\ seg' = [seg EXCEPT ![activeSegment].store = a.store]
     /\ ret' = Ret("store.Append", a.n, p, a.err, a.pos, <<>>)
     /\ UNCHANGED <<picker, produceStream, mu, pc, cluster, calls, reader, stream, Config,
                    dirExists, files, segments, activeSegment, status, nAppends,
                    prevOff, maxOff, fresh>>

\* store.Read(pos); ret.off keeps how many bytes the writer held before the
\* flush
StoreRead(pos) ==
  LET s == seg[activeSegment].store
      r == store_Read(s, files[activeSegment].store, pos)
  IN /\ status = "open"
     /\ ret' = Ret("store.Read", pos, r.b, r.err, Len(s.buf), <<>>)
     /\ IF s.werr # NoErr THEN UNCHANGED <<files, seg>>
        ELSE /\ files' = [files EXCEPT ![activeSegment].store = Flushed(s, @)]
             /\ seg' = [seg EXCEPT ![activeSegment].store.buf = <<>>]
     /\ UNCHANGED <<picker, produceStream, mu, pc, cluster, calls, reader, stream, Config,
                    dirExists, segments, activeSegment, status, nAppends,
                    prevOff, maxOff, fresh>>

\* the positions store.Read is called with: those Append returned, and two
\* that it did not: inside the first length prefix, and the end of the store
ReadPositions ==
  {c.pos : c \in Range(calls)} \cup {1, seg[activeSegment].store.size}

NextStoreOps ==
  \/ \E p \in Payloads : StoreAppend(p)
  \/ \E pos \in ReadPositions : StoreRead(pos)

SpecStoreOps == InitLong /\ [][NextStoreOps]_vars

\* the same store on a file that may reject a write
NextStoreFail ==
  \/ \E p \in Payloads : StoreAppend(p)
  \/ \E p \in Payloads, stage \in {"prefix", "payload"}, k \in 0..1 :
       k < Len(p) /\ StoreAppendFails(p, stage, k)
  \/ \E pos \in ReadPositions : StoreRead(pos)

SpecStoreFail == InitLong /\ [][NextStoreFail]_vars

(***************************************************************************)
(* The index of the Log's first segment used on its own: calls keeps the   *)
(* <<off, pos>> pair of every successful Write.                            *)
(***************************************************************************)
\* the relative offsets and positions given to index.Write
IndexOffs == 0..MaxTailAppends
IndexPositions == {0, lenWidth + 1}

\* index.Write(off, pos)
IndexWrite(off, pos) ==
  LET w == index_Write(seg[activeSegment].index, files[activeSegment].index,
                       FALSE, off, pos)
  IN /\ status = "open"
     /\ seg' = [seg EXCEPT ![activeSegment].index = w.index]
     /\ files' = [files EXCEPT ![activeSegment].index = w.entries]
     /\ calls' = IF w.err = NoErr THEN Append(calls, [off |-> off, pos |-> pos])
                 ELSE calls
     /\ ret' = Ret("index.Write", <<off, pos>>, <<>>, w.err, 0, <<>>)
     /\ UNCHANGED <<picker, produceStream, mu, pc, cluster, reader, stream, Config,
                    dirExists, segments, activeSegment, status, nAppends,
                    prevOff, maxOff, fresh>>

\* index.Read(in); ret.rec is the pair it returns
IndexRead(in) ==
  LET r == index_Read(seg[activeSegment].index, files[activeSegment].index, in)
  IN /\ status = "open"
     /\ ret' = Ret("index.Read", in, <<>>, r.err, 0,
                   IF r.err = NoErr THEN <<[off |-> r.out, pos |-> r.pos]>> ELSE <<>>)
     /\ UNCHANGED <<picker, produceStream, mu, pc, cluster, calls, reader, stream, Config,
                    dirExists, files, seg, segments, activeSegment, status,
                    nAppends, prevOff, maxOff, fresh>>

\* the entry numbers index.Read is called with: -1 and every slot of the
\* mapping and the one behind it
IndexIns == (-1)..(LongConfig.MaxIndexBytes \div entWidth)

NextIndexOps ==
  \/ \E off \in IndexOffs, pos \in IndexPositions : IndexWrite(off, pos)
  \/ \E in \in IndexIns : IndexRead(in)

SpecIndexOps == InitLong /\ [][NextIndexOps]_vars

(***************************************************************************)
(* The replicated log. Its code is not part of src/: the consensus library *)
(* is taken to deliver one sequence of committed commands to every node,   *)
(* and each node's state machine to apply the APPEND commands of that      *)
(* sequence, one at a time and in order, to its user log with Log.Append.  *)
(***************************************************************************)
Nodes == {"leader", "follower"}

\* the configuration of every node: segments of two records, first offset 1
ClusterConfig ==
  [MaxStoreBytes |-> 0, MaxIndexBytes |-> 2 * entWidth, InitialOffset |-> 1]

\* a bootstrapped cluster: every node has an empty user log
InitCluster ==
  \E c \in {ClusterConfig} :
    /\ Config = WithDefaults(c)
    /\ dirExists = TRUE
    /\ files = setup(EmptyDir, Config).files
    /\ seg = setup(EmptyDir, Config).seg
    /\ segments = setup(EmptyDir, Config).segments
    /\ activeSegment = setup(EmptyDir, Config).activeSegment
    /\ status = "open"
    /\ ret = Ret("NewLog", 0, <<>>, NoErr, 0, <<>>)
    /\ nAppends = 0
    /\ prevOff = -1
    /\ maxOff = -1
    /\ fresh = TRUE
    /\ reader = NoReader
    /\ stream = NoStream
    /\ produceStream = NoProduceStream
    /\ mu = Unlocked
    /\ pc = Idle
    /\ cluster = [committed |-> <<>>,
                  node |-> [n \in Nodes |->
                              [L |-> setup(EmptyDir, Config), applied |-> 0]]]
    /\ calls = <<>>
    /\ picker = NoPicker

\* replicatedLog.append(record) on the leader: the APPEND command is
\* committed
ReplicatedAppend(value) ==
  /\ Len(cluster.committed) < MaxTailAppends
  /\ cluster' = [cluster EXCEPT !.committed = Append(@, value)]
  /\ ret' = Ret("ReplicatedAppend", 0, value, NoErr, 0, <<>>)
  /\ UNCHANGED <<picker, produceStream, mu, pc, calls, reader, stream, Config, dirExists,
                 files, seg, segments, activeSegment, status, nAppends, prevOff, maxOff,
                 fresh>>

\* the state machine of node n applies the next committed command to the
\* node's user log
FSMApply(n) ==
  LET node == cluster.node[n]
      a == Log_Append(node.L, cluster.committed[node.applied + 1], Config)
  IN /\ node.applied < Len(cluster.committed)
     /\ cluster' = [cluster EXCEPT !.node[n] =
                      [L |-> a.L, applied |-> node.applied + 1]]
     /\ ret' = Ret("FSMApply", 0, <<>>, a.err, a.off, <<>>)
     /\ UNCHANGED <<picker, produceStream, mu, pc, calls, reader, stream, Config, dirExists,
                    files, seg, segments, activeSegment, status, nAppends, prevOff, maxOff,
                    fresh>>

\* read(offset) of the replicated log on node n: Log.Read on the node's user
\* log
ReplicatedRead(n, off) ==
  LET r == Log_Read(cluster.node[n].L, off)
  IN /\ cluster' = [cluster EXCEPT !.node[n].L = Log_ReadFlush(@, off)]
     /\ ret' = Ret("ReplicatedRead", off, <<>>, r.err, 0, r.rec)
     /\ UNCHANGED <<picker, produceStream, mu, pc, calls, reader, stream, Config, dirExists,
                    files, seg, segments, activeSegment, status, nAppends, prevOff, maxOff,
                    fresh>>

\* the offsets clients read: those of the committed commands, and the first
\* offset of the log
ClusterOffsets ==
  {Config.InitialOffset}
    \cup {Config.InitialOffset + k - 1 : k \in 1..Len(cluster.committed)}

NextCluster ==
  \/ \E value \in Values : ReplicatedAppend(value)
  \/ \E n \in Nodes : FSMApply(n)
  \/ \E n \in Nodes, off \in ClusterOffsets : ReplicatedRead(n, off)

SpecCluster == InitCluster /\ [][NextCluster]_vars

(***************************************************************************)
(* The client's load balancer: loadbalance.Picker. One Picker object is    *)
(* registered and Build returns it again, so leader, followers and current *)
(* live across Builds. Pick holds p.mu.RLock and Build p.mu.Lock: a Pick   *)
(* sees one leader and one followers slice, and its only write is the      *)
(* atomic add of nextFollower, so concurrent Picks take effect in the      *)
(* order of their atomic adds.                                             *)
(***************************************************************************)
\* the substrings Pick looks for, and the full method names of the RPCs
StrProduce == <<"P", "r", "o", "d", "u", "c", "e">>
StrConsume == <<"C", "o", "n", "s", "u", "m", "e">>
MethodNames ==
  { <<"/", "P", "r", "o", "d", "u", "c", "e">>,
    <<"/", "C", "o", "n", "s", "u", "m", "e">>,
    <<"/", "P", "r", "o", "d", "u", "c", "e", "S", "t", "r", "e", "a", "m">>,
    <<"/", "C", "o", "n", "s", "u", "m", "e", "S", "t", "r", "e", "a", "m">>,
    <<"/", "G", "e", "t", "S", "e", "r", "v", "e", "r", "s">> }

\* strings.Contains
Contains(s, substr) ==
  \E i \in 0..(Len(s) - Len(substr)) : SubSeq(s, i + 1, i + Len(substr)) = substr

\* the subconnections of the client, and the is_leader attribute of the
\* address of each
SubConns == {"leader", "follower1", "follower2", "follower3"}
isLeader(sc) == sc = "leader"

ErrNoSubConnAvailable == [kind |-> "ErrNoSubConnAvailable", Offset |-> 0]

\* the orders in which a range over the map ReadySCs can visit its keys
Orders(ready) ==
  {q \in [1..Cardinality(ready) -> ready] : Range(q) = ready}

\* the loop of Picker.Build over ReadySCs in the order scs
RECURSIVE BuildLoop(_, _, _)
BuildLoop(scs, leader, followers) ==
  IF scs = <<>> THEN [leader |-> leader, followers |-> followers]
  ELSE IF isLeader(scs[1])
    THEN BuildLoop(SubSeq(scs, 2, Len(scs)), scs[1], followers)
  ELSE BuildLoop(SubSeq(scs, 2, Len(scs)), leader, Append(followers, scs[1]))

\* Picker.Build: p.leader is assigned only when a ready leader is seen
Picker_Build(p, scs) ==
  LET b == BuildLoop(scs, p.leader, <<>>)
  IN [p EXCEPT !.leader = b.leader, !.followers = b.followers]

\* Picker.nextFollower without the atomic add
Picker_nextFollower_NoAdd(p) ==
  [p |-> p, SubConn |-> p.followers[(p.current % Len(p.followers)) + 1],
   next |-> TRUE]

\* Picker.nextFollower: cur is the uint64 sum
Picker_nextFollower(p) ==
  LET cur == U64(p.current + 1)
      idx == cur % Len(p.followers)
  IN [p |-> [p EXCEPT !.current = cur], SubConn |-> p.followers[idx + 1],
      next |-> TRUE]

\* Picker.Pick sending a Consume to the leader
Picker_Pick_ConsumeToLeader(p, method) ==
  [p |-> p, SubConn |-> p.leader, next |-> FALSE,
   err |-> IF p.leader = "nil" THEN ErrNoSubConnAvailable ELSE NoErr]

\* Picker.Pick
Picker_Pick(p, method) ==
  LET r == IF Contains(method, StrProduce) \/ Len(p.followers) = 0
             THEN [p |-> p, SubConn |-> p.leader, next |-> FALSE]
           ELSE IF Contains(method, StrConsume)
             THEN Picker_nextFollower(p)
           ELSE [p |-> p, SubConn |-> "nil", next |-> FALSE]
  IN [p |-> r.p, SubConn |-> r.SubConn, next |-> r.next,
      err |-> IF r.SubConn = "nil" THEN ErrNoSubConnAvailable ELSE NoErr]

\* the last n elements of q
LastN(q, n) == IF Len(q) <= n THEN q ELSE SubSeq(q, Len(q) - n + 1, Len(q))

\* the balancer calls Build with the ready subconnections
Build(ready) ==
  /\ \E scs \in Orders(ready) :
       picker' = [Picker_Build(picker, scs) EXCEPT !.recent = <<>>]
  /\ ret' = Ret("Build", 0, <<>>, NoErr, 0, <<>>)
  /\ UNCHANGED <<produceStream, mu, pc, cluster, calls, reader, stream, Config,
                 dirExists, files, seg, segments, activeSegment, status,
                 nAppends, prevOff, maxOff, fresh>>

\* an RPC of the client asks the Picker for a subconnection
Pick(method) ==
  LET r == Picker_Pick(picker, method)
  IN /\ picker' = [r.p EXCEPT !.recent =
                     IF r.next
                       THEN LastN(Append(@, [SubConn |-> r.SubConn,
                                             wrapped |-> picker.current = MaxUint64]),
                                  Len(picker.followers))
                     ELSE @]
     /\ ret' = Ret("Pick", 0, method, r.err, 0,
                   IF r.SubConn = "nil" THEN <<>> ELSE <<r.SubConn>>)
     /\ UNCHANGED <<produceStream, mu, pc, cluster, calls, reader, stream,
                    Config, dirExists, files, seg, segments, activeSegment,
                    status, nAppends, prevOff, maxOff, fresh>>

NextPicker ==
  \/ \E ready \in SUBSET SubConns : Build(ready)
  \/ \E method \in MethodNames : Pick(method)

SpecPicker == InitLong /\ [][NextPicker]_vars

(***************************************************************************)
(* Log.Append when the files of the next segment cannot be created (the    *)
(* disk is full, no file descriptor is left).                              *)
(***************************************************************************)
\* Log.Append whose l.newSegment fails in os.OpenFile of the store file:
\* no file is created and segments and activeSegment are left as they are;
\* Append returns the offset together with the error
Log_AppendFailedRollover(L, value, c) ==
  LET a == L.seg[L.activeSegment]
      r == segment_Append(a, FileOf(L.files, a.baseOffset), value)
      L1 == [L EXCEPT !.seg[a.baseOffset] = r.s,
                      !.files = IF a.closed THEN @ ELSE WithFile(@, a.baseOffset, r.f)]
  IN IF r.err # NoErr THEN [L |-> L1, off |-> 0, err |-> r.err]
     ELSE IF IsMaxed(r.s, c)
       THEN [L |-> L1, off |-> r.offset, err |-> ErrIO]
     ELSE [L |-> L1, off |-> r.offset, err |-> NoErr]

\* an Append that fills the active segment while no file can be created
AppendFailedRollover(value) ==
  LET r == Log_AppendFailedRollover(Log, value, Config)
  IN /\ status = "open"
     /\ nAppends < MaxAppends
     /\ seg[activeSegment].nextOffset < MaxUint64
     /\ r.err = ErrIO
     /\ nAppends' = nAppends + 1
     /\ ret' = Ret("Append", 0, value, r.err, r.off, <<>>)
     /\ SetLog(r.L)
     /\ UNCHANGED <<picker, produceStream, mu, pc, cluster, calls, reader,
                    stream, Config, dirExists, status, prevOff, maxOff, fresh>>

NextRollover ==
  \/ \E value \in Values : LogAppend(value)
  \/ \E value \in Values : AppendFailedRollover(value)
  \/ \E off \in ReadOffsets : Read(off)
  \/ HighestOffset

SpecRollover == Init /\ [][NextRollover]_vars

(***************************************************************************)
(* Two goroutines calling Log.Append on one Log. The body of               *)
(* segment.Append is taken in two steps, the read of s.nextOffset into cur *)
(* and the rest, so that what l.mu excludes can be seen.                   *)
(***************************************************************************)
Goroutines == {"writer", "reader"}

\* segment.Append after cur := s.nextOffset: the record carries cur and cur
\* is returned, the index entry and the increment use s.nextOffset
segment_AppendAt(s, f, value, cur) ==
  LET p == Marshal([Value |-> value, Offset |-> cur])
      a == store_Append(s.store, p)
      w == index_Write(s.index, f.index, s.closed, s.nextOffset - s.baseOffset, a.pos)
  IN IF w.err # NoErr
       THEN [err |-> w.err, offset |-> 0, s |-> [s EXCEPT !.store = a.store], f |-> f]
     ELSE [err |-> NoErr, offset |-> cur,
           s |-> [s EXCEPT !.store = a.store, !.index = w.index,
                           !.nextOffset = U64(@ + 1)],
           f |-> [f EXCEPT !.index = w.entries]]

\* Log.Append after cur := s.nextOffset in segment.Append
Log_AppendAt(L, value, c, cur) ==
  LET a == L.seg[L.activeSegment]
      r == segment_AppendAt(a, FileOf(L.files, a.baseOffset), value, cur)
      L1 == [L EXCEPT !.seg[a.baseOffset] = r.s,
                      !.files = IF a.closed THEN @ ELSE WithFile(@, a.baseOffset, r.f)]
  IN IF r.err # NoErr THEN [L |-> L1, off |-> 0, err |-> r.err]
     ELSE IF IsMaxed(r.s, c)
       THEN [L |-> Log_newSegment(L1, U64(r.offset + 1), c), off |-> r.offset,
             err |-> NoErr]
     ELSE [L |-> L1, off |-> r.offset, err |-> NoErr]

\* the Append calls that have not returned
InFlight == {g \in Goroutines : pc[g].op = "Append"}

\* goroutine g calls Append(value)
AppenderCall(g, value) ==
  /\ status = "open"
  /\ pc[g].op = "idle"
  /\ nAppends + Cardinality(InFlight) < MaxAppends
  /\ pc' = [pc EXCEPT ![g] = [op |-> "Append", at |-> "Lock", arg |-> <<value>>]]
  /\ UNCHANGED <<LockFrame, mu, reader, dirExists, files, seg, segments,
                 activeSegment, status, ret, nAppends, prevOff, maxOff>>

\* l.mu.Lock() that does not wait
AppenderLock_NoWait(g) ==
  /\ pc[g].op = "Append"
  /\ pc[g].at = "Lock"
  /\ mu' = [mu EXCEPT !.w = TRUE]
  /\ pc' = [pc EXCEPT ![g].at = "cur"]
  /\ UNCHANGED <<LockFrame, reader, dirExists, files, seg, segments,
                 activeSegment, status, ret, nAppends, prevOff, maxOff>>

\* l.mu.Lock() of Log.Append: waits until no lock is held
AppenderLock(g) ==
  /\ pc[g].op = "Append"
  /\ pc[g].at = "Lock"
  /\ ~mu.w
  /\ mu.r = 0
  /\ mu' = [mu EXCEPT !.w = TRUE]
  /\ pc' = [pc EXCEPT ![g].at = "cur"]
  /\ UNCHANGED <<LockFrame, reader, dirExists, files, seg, segments,
                 activeSegment, status, ret, nAppends, prevOff, maxOff>>

\* cur := s.nextOffset of segment.Append on the active segment
AppenderCur(g) ==
  /\ pc[g].op = "Append"
  /\ pc[g].at = "cur"
  /\ pc' = [pc EXCEPT ![g].at = "write",
                      ![g].arg = <<@[1], seg[activeSegment].nextOffset>>]
  /\ UNCHANGED <<LockFrame, mu, reader, dirExists, files, seg, segments,
                 activeSegment, status, ret, nAppends, prevOff, maxOff>>

\* the rest of segment.Append and of Log.Append, up to the return value
AppenderWrite(g) ==
  LET a == Log_AppendAt(Log, pc[g].arg[1], Config, pc[g].arg[2])
  IN /\ pc[g].op = "Append"
     /\ pc[g].at = "write"
     /\ pc' = [pc EXCEPT ![g].at = "Unlock"]
     /\ nAppends' = nAppends + 1
     /\ ret' = Ret("Append", 0, pc[g].arg[1], a.err, a.off, <<>>)
     /\ SetLog(a.L)
     /\ prevOff' = IF a.err = NoErr THEN a.off ELSE prevOff
     /\ maxOff' = IF a.err = NoErr /\ a.off > maxOff THEN a.off ELSE maxOff
     /\ UNCHANGED <<LockFrame, mu, reader, dirExists, status>>

\* the deferred l.mu.Unlock(): Append returns
AppenderUnlock(g) ==
  /\ pc[g].op = "Append"
  /\ pc[g].at = "Unlock"
  /\ mu' = [mu EXCEPT !.w = FALSE]
  /\ pc' = [pc EXCEPT ![g] = Idle[g]]
  /\ UNCHANGED <<LockFrame, reader, dirExists, files, seg, segments,
                 activeSegment, status, ret, nAppends, prevOff, maxOff>>

NextAppenders ==
  \/ \E g \in Goroutines, value \in Values : AppenderCall(g, value)
  \/ \E g \in Goroutines : AppenderLock(g)
  \/ \E g \in Goroutines : AppenderCur(g)
  \/ \E g \in Goroutines : AppenderWrite(g)
  \/ \E g \in Goroutines : AppenderUnlock(g)

SpecAppenders == Init /\ [][NextAppenders]_vars

(***************************************************************************)
(* Logs of every segment size: an index of one entry, of one entry and a   *)
(* byte, of two entries, or the default; a store that every record fills,  *)
(* that the second record fills, or the default.                           *)
(***************************************************************************)
SizeConfigs ==
  {[MaxStoreBytes |-> s, MaxIndexBytes |-> i, InitialOffset |-> 0] :
     s \in {0, 1, 14}, i \in {0, entWidth, entWidth + 1, 2 * entWidth}}

\* NewLog on an existing, empty directory
InitSizes ==
  \E c \in SizeConfigs :
    /\ Config = WithDefaults(c)
    /\ dirExists = TRUE
    /\ files = setup(EmptyDir, Config).files
    /\ seg = setup(EmptyDir, Config).seg
    /\ segments = setup(EmptyDir, Config).segments
    /\ activeSegment = setup(EmptyDir, Config).activeSegment
    /\ status = "open"
    /\ ret = Ret("NewLog", 0, <<>>, NoErr, 0, <<>>)
    /\ nAppends = 0
    /\ prevOff = -1
    /\ maxOff = -1
    /\ fresh = TRUE
    /\ reader = NoReader
    /\ stream = NoStream
    /\ produceStream = NoProduceStream
    /\ mu = Unlocked
    /\ pc = Idle
    /\ cluster = NoCluster
    /\ calls = <<>>
    /\ picker = NoPicker

\* a Log that is appended to, closed and reopened
NextSizes ==
  \/ \E value \in Values : LogAppend(value)
  \/ Close
  \/ NewLog

SpecSizes == InitSizes /\ [][NextSizes]_vars

(***************************************************************************)
(* A ConsumeStream beside a producer on a Log whose head is truncated.     *)
(***************************************************************************)
NextProgress ==
  \/ TailProduce
  \/ \E lowest \in TailStarts : Truncate(lowest)
  \/ \E start \in TailStarts : ConsumeStream(start, TRUE)
  \/ StreamStep

\* the handler's goroutine is scheduled again and again
SpecProgressFair == Init /\ [][NextProgress]_vars /\ WF_vars(StreamStep)

(***************************************************************************)
(* Claims.                                                                 *)
(***************************************************************************)
\* the last call was a Log.Append that returned without error
AppendSucceeded == ret.op \in {"Append", "Produce"} /\ ret.err = NoErr

\* this step is a Log.Append that returns without error
AppendStep == nAppends' = nAppends + 1 /\ ret'.err = NoErr

\* Log.Read returning the record of value at off
RecordAt(off, value) ==
  [err |-> NoErr, rec |-> <<[Value |-> value, Offset |-> off]>>]

\* C1: after every successful Log.Append, whether or not it rolled over to a
\* new segment, HighestOffset() returns the offset the Append returned.
C1_AppendReturnsHighestOffset ==
  AppendSucceeded => Log_HighestOffset(Log) = [err |-> NoErr, off |-> ret.off]

\* C2: the record of a successful Append(r) -> off is what Read(off) returns
\* from then on, as long as no Truncate or Reset intervenes: right after
\* the Append, Read(off) returns r's value with offset off, and no later
\* call other than Truncate and Reset changes what Read returns for a
\* readable offset.
C2_ReadAfterAppend ==
  [][/\ AppendStep => Log_Read(Log', ret'.off) = RecordAt(ret'.off, ret'.val)
     /\ (status' = "open" /\ ret'.op \notin {"Truncate", "Reset"})
          => \A off \in Offsets :
               Log_Read(Log, off).err = NoErr
                 => Log_Read(Log', off) = Log_Read(Log, off)]_vars

\* C3: the first successful Append on a fresh log returns InitialOffset and
\* every later successful Append of the Log returns the previous one's
\* offset plus one, also across rollovers and Truncates.
C3_ConsecutiveOffsets ==
  [][AppendStep =>
       IF prevOff = -1 THEN (fresh => ret'.off = Config.InitialOffset)
       ELSE ret'.off = prevOff + 1]_vars

\* C3 witness: a successful Append that rolls over to a new segment, on a
\* fresh log whose head a Truncate removed, leaving the active segment in place
C3_Witness ==
  /\ AppendSucceeded
  /\ fresh
  /\ Len(segments) >= 2
  /\ activeSegment = segments[Len(segments)]
  /\ seg[segments[1]].baseOffset > Config.InitialOffset
  /\ seg[activeSegment].baseOffset = ret.off + 1
  /\ ret.off = Config.InitialOffset + nAppends - 1

\* the offsets Read returns a record for
Readable(L) == {off \in Offsets : Log_Read(L, off).err = NoErr}

\* LowestOffset()..HighestOffset() is exactly the set of readable offsets
ReadableIsLowestToHighest ==
  /\ Log_LowestOffset(Log).err = NoErr
  /\ Log_HighestOffset(Log).err = NoErr
  /\ Readable(Log) = Log_LowestOffset(Log).off..Log_HighestOffset(Log).off

\* C4 as claimed: in every state of an open Log, a fresh one without
\* records included, the readable offsets are exactly
\* LowestOffset()..HighestOffset().
C4_Original == status = "open" => ReadableIsLowestToHighest

\* C4 amended: in every state of an open Log in which some offset is
\* readable, the readable offsets are exactly LowestOffset()..HighestOffset().
C4_ReadableRange ==
  (status = "open" /\ Readable(Log) # {}) => ReadableIsLowestToHighest

\* C4 witness: records in two segments behind a truncated head
C4_Witness ==
  /\ status = "open"
  /\ Len(segments) >= 2
  /\ Log_LowestOffset(Log).off > Config.InitialOffset
  /\ Cardinality(Readable(Log)) >= 3
  /\ seg[segments[1]].nextOffset - 1 \in Readable(Log)
  /\ seg[segments[2]].baseOffset \in Readable(Log)

\* no segment of the list has baseOffset <= off < nextOffset
NoSegmentCovers(off) ==
  \A b \in Range(segments) : ~(seg[b].baseOffset <= off /\ off < seg[b].nextOffset)

\* C5: a Read of an offset no segment covers returns ErrOffsetOutOfRange
\* carrying the requested offset and no record, and an authorized Consume
\* hands exactly that to its caller.
C5_OutOfRange ==
  (ret.op \in {"Read", "Consume"} /\ ret.err # PermissionDenied /\ NoSegmentCovers(ret.arg))
    => (ret.err = ErrOffsetOutOfRange(ret.arg) /\ ret.rec = <<>>)

\* C5 witness: Consume of an offset that was appended and truncated away
C5_Witness ==
  /\ ret.op = "Consume"
  /\ ret.err = ErrOffsetOutOfRange(ret.arg)
  /\ prevOff # -1
  /\ ret.arg <= prevOff
  /\ ret.arg >= Config.InitialOffset

\* the segment of the list covering off is one Truncate(lowest) removes
InRemoved(off, lowest) ==
  \E b \in Range(segments) :
    /\ seg[b].baseOffset <= off /\ off < seg[b].nextOffset
    /\ seg[b].nextOffset <= U64(lowest + 1)

OutOfRange(off) == [err |-> ErrOffsetOutOfRange(off), rec |-> <<>>]

\* C6 as stated: after Truncate(L) every off <= L is out of range and every
\* off > L that was readable reads as before.
C6_Original ==
  [][ret'.op = "Truncate" =>
       \A off \in Offsets :
         /\ off <= ret'.arg => Log_Read(Log', off) = OutOfRange(off)
         /\ (off > ret'.arg /\ Log_Read(Log, off).err = NoErr)
              => Log_Read(Log', off) = Log_Read(Log, off)]_vars

\* C6: after Truncate(L) every offset of a removed segment (a segment with
\* nextOffset <= L+1) is out of range, and every other offset, whether above
\* L or at most L in a surviving segment, reads as it did before.
C6_TruncateReads ==
  [][ret'.op = "Truncate" =>
       \A off \in Offsets :
         /\ InRemoved(off, ret'.arg) => Log_Read(Log', off) = OutOfRange(off)
         /\ ~InRemoved(off, ret'.arg) => Log_Read(Log', off) = Log_Read(Log, off)
         /\ (off > ret'.arg /\ Log_Read(Log, off).err = NoErr)
              => Log_Read(Log', off) = Log_Read(Log, off)]_vars

\* C6 witness: a Truncate(L) that removed a segment with records and left
\* readable both an offset <= L and an offset > L
C6_Witness ==
  /\ ret.op = "Truncate"
  /\ segments # <<>>
  /\ seg[segments[1]].baseOffset > Config.InitialOffset
  /\ \E off \in Offsets : off <= ret.arg /\ Log_Read(Log, off).err = NoErr
  /\ \E off \in Offsets : off > ret.arg /\ Log_Read(Log, off).err = NoErr

C8_TruncateKeepsActive ==
  [][ret'.op = "Truncate" =>
       /\ activeSegment \in Range(segments) => activeSegment' \in Range(segments')
       /\ Readable(Log) = {} => Log' = Log
       /\ segments' # <<>>
       /\ Log_LowestOffset(Log').err = NoErr
       /\ Log_HighestOffset(Log').err = NoErr]_vars

\* C9: in an open Log activeSegment is the last element of the segments list.
C9_ActiveIsLast ==
  status = "open" =>
    (segments # <<>> /\ activeSegment = segments[Len(segments)])

\* C10: in an open Log the segments are sorted by strictly ascending
\* baseOffset, each segment starts where its predecessor ends, and
\* nextOffset >= baseOffset in every segment.
C10_SegmentsContiguous ==
  status = "open" =>
    /\ \A i, j \in 1..Len(segments) :
         i < j => seg[segments[i]].baseOffset < seg[segments[j]].baseOffset
    /\ \A i \in 1..(Len(segments) - 1) :
         seg[segments[i + 1]].baseOffset = seg[segments[i]].nextOffset
    /\ \A i \in 1..Len(segments) :
         seg[segments[i]].nextOffset >= seg[segments[i]].baseOffset

\* C10 witness: a log of three or more segments reopened from its directory
C10_Witness ==
  /\ status = "open"
  /\ ret.op = "NewLog"
  /\ Len(segments) >= 3
  /\ seg[segments[1]].nextOffset > seg[segments[1]].baseOffset
  /\ seg[segments[2]].nextOffset > seg[segments[2]].baseOffset

\* C11: a clean Close followed by NewLog on the same directory with the
\* same config is a round trip: LowestOffset and HighestOffset are what they
\* were before the Close, every offset readable before reads the identical
\* record, and the next Append gets the offset it would have got.
C11_CloseReopenRoundTrip ==
  [][ret'.op = "Close" =>
       LET reopened == setup(files', Config)
       IN /\ Log_LowestOffset(reopened) = Log_LowestOffset(Log)
          /\ Log_HighestOffset(reopened) = Log_HighestOffset(Log)
          /\ \A off \in Offsets :
               Log_Read(Log, off).err = NoErr
                 => Log_Read(reopened, off) = Log_Read(Log, off)
          /\ \A value \in Values :
               Log_Append(Log, value, Config).err = NoErr
                 => /\ Log_Append(reopened, value, Config).err = NoErr
                    /\ Log_Append(reopened, value, Config).off
                         = Log_Append(Log, value, Config).off]_vars

\* this step is a Log.Append that returns an error
FailedAppendStep ==
  nAppends' = nAppends + 1 /\ ret'.err \notin {NoErr, SIGBUS}

\* the number of length-prefixed records in the bytes of a store
RECURSIVE RecordCount(_)
RecordCount(b) ==
  IF Len(b) < lenWidth THEN 0
  ELSE 1 + RecordCount(SubSeq(b, lenWidth + Uint(SubSeq(b, 1, lenWidth)) + 1, Len(b)))

\* the records in the store of the segment with base offset b, buffer included
StoreRecords(b) == RecordCount(Flushed(seg[b].store, FileOf(files, b).store))

C13_IndexEntriesMatchStore ==
  status = "open" =>
    \A b \in Range(segments) :
      seg[b].index.size \div entWidth = StoreRecords(b)

\* the active segment as the Append of this step leaves it
ActiveAfterAppend ==
  segment_Append(seg[activeSegment], FileOf(files, activeSegment), ret'.val).s

\* s has reached MaxStoreBytes or MaxIndexBytes or has no room for an entry
Maxed(s) ==
  \/ s.store.size >= Config.MaxStoreBytes
  \/ s.index.size >= Config.MaxIndexBytes
  \/ s.index.mmapLen < s.index.size + entWidth

\* C14: a successful Append that leaves the active segment maxed creates a
\* new segment, appends it to the list and makes it active within the same
\* call, with baseOffset = the old active segment's nextOffset = the returned
\* offset + 1; an Append that does not leave it maxed creates none.
C14_MaxedCreatesSegment ==
  [][AppendStep =>
       IF Maxed(ActiveAfterAppend)
         THEN /\ activeSegment' = ActiveAfterAppend.nextOffset
              /\ activeSegment' = ret'.off + 1
              /\ segments' = segments \o <<activeSegment'>>
              /\ seg'[activeSegment'].baseOffset = activeSegment'
              /\ ~seg'[activeSegment'].closed
       ELSE /\ activeSegment' = activeSegment
            /\ segments' = segments]_vars

\* C14 witness: an Append that filled the store of the active segment
\* exactly to MaxStoreBytes
C14_Witness ==
  /\ AppendSucceeded
  /\ Len(segments) >= 2
  /\ activeSegment = segments[Len(segments)]
  /\ activeSegment = ret.off + 1
  /\ seg[segments[Len(segments) - 1]].store.size = Config.MaxStoreBytes
  /\ seg[segments[Len(segments) - 1]].nextOffset = activeSegment

\* the Append of this step finds a store that its record pushes past
\* MaxStoreBytes
PushesPast ==
  seg[activeSegment].store.size + lenWidth
    + Len(Marshal([Value |-> ret'.val, Offset |-> seg[activeSegment].nextOffset]))
    > Config.MaxStoreBytes

\* the base offsets of the segments of L whose store holds the record at off
StoredIn(L, off) == {L.segments[k] : k \in Covering(L, off)}

\* C15 as stated: a record that pushes the active store past MaxStoreBytes
\* is stored in a new segment whose baseOffset is the record's offset.
C15_Original ==
  [][(AppendStep /\ PushesPast) =>
       /\ ret'.off \notin Range(segments)
       /\ StoredIn(Log', ret'.off) = {ret'.off}]_vars

\* C15: a record that pushes the active store past MaxStoreBytes is still
\* appended to the segment that was active: it gets that segment's
\* nextOffset, the store grows past MaxStoreBytes, no segment is created at
\* the record's offset, and the new segment is created after the append,
\* empty, with baseOffset = the record's offset + 1.
C15_StoredInActiveSegment ==
  [][(AppendStep /\ PushesPast) =>
       /\ ret'.off = seg[activeSegment].nextOffset
       /\ ActiveAfterAppend.store.size > Config.MaxStoreBytes
       /\ ActiveAfterAppend.nextOffset = ret'.off + 1
       /\ StoredIn(Log', ret'.off) \subseteq {activeSegment}
       /\ segments' = segments \o <<ret'.off + 1>>
       /\ activeSegment' = ret'.off + 1
       /\ seg'[activeSegment'].nextOffset = seg'[activeSegment'].baseOffset]_vars

\* C15 witness: MaxStoreBytes = 32, two appends of 28 and 30 bytes on disk:
\* offsets 0 and 1 are both in the segment of base 0, the bases are 0 and 2
C15_Witness ==
  /\ Config.MaxStoreBytes = 32
  /\ AppendSucceeded
  /\ nAppends = 2
  /\ ret.off = 1
  /\ segments = <<0, 2>>
  /\ seg[0].store.size = 58
  /\ StoredIn(Log, 0) = {0}
  /\ StoredIn(Log, 1) = {0}
  /\ seg[2].nextOffset = 2

\* C16: Reset on a Log holding records succeeds and leaves exactly one
\* open, empty segment at InitialOffset: nothing appended before is readable
\* and the next Append returns InitialOffset.
C16_ResetRecreates ==
  [][(ret'.op = "Reset" /\ Readable(Log) # {}) =>
       /\ ret'.err = NoErr
       /\ status' = "open"
       /\ segments' = <<Config.InitialOffset>>
       /\ ~seg'[Config.InitialOffset].closed
       /\ seg'[Config.InitialOffset].nextOffset = Config.InitialOffset
       /\ Readable(Log') = {}
       /\ \A value \in Values :
            Log_Append(Log', value, Config).off = Config.InitialOffset]_vars

\* C17: a snapshot of the Log through Reader(), Reset() and the re-append
\* of the records of the stream give back the same LowestOffset and
\* HighestOffset and the same record at every offset.
C17_SnapshotRestoreRoundTrip ==
  [][(ret'.op = "Restore" /\ Readable(Log) # {}) =>
       /\ ret'.err = NoErr
       /\ status' = "open"
       /\ Log_LowestOffset(Log') = Log_LowestOffset(Log)
       /\ Log_HighestOffset(Log') = Log_HighestOffset(Log)
       /\ \A off \in Offsets : Log_Read(Log', off) = Log_Read(Log, off)]_vars

\* b is a prefix of c
IsPrefix(b, c) == Len(b) <= Len(c) /\ b = SubSeq(c, 1, Len(b))

\* C18: the bytes a reader of Log.Reader yields are bytes the stores held
\* when Reader returned; records appended later never appear in them.
C18_ReaderViewFixed ==
  IsPrefix(reader.out, reader.view)

\* C19: ConsumeStream sends the records of start, start+1, ... in this
\* order without a gap or a duplicate, and ErrOffsetOutOfRange never ends
\* the stream: the handler stays on that offset; it returns only once the
\* context is cancelled or Consume fails with another error.
C19_StreamConsecutive ==
  [][/\ stream'.sent # stream.sent =>
          /\ Len(stream'.sent) = Len(stream.sent) + 1
          /\ SubSeq(stream'.sent, 1, Len(stream.sent)) = stream.sent
          /\ stream'.sent[Len(stream'.sent)].Offset = stream.start + Len(stream.sent)
          /\ <<stream'.sent[Len(stream'.sent)]>>
               = Log_Read(Log, stream.start + Len(stream.sent)).rec
     /\ (stream.state = "running" /\ stream'.state = "done") =>
          \/ stream.cancelled /\ stream'.err = NoErr
          \/ stream'.err \notin {NoErr, ErrOffsetOutOfRange(stream.Offset)}
     /\ (/\ stream.state = "running" /\ ~stream.cancelled /\ stream.allowed
         /\ Log_Read(Log, stream.Offset).err = ErrOffsetOutOfRange(stream.Offset)) =>
          /\ stream'.state = "running"
          /\ stream'.Offset = stream.Offset
          /\ stream'.sent = stream.sent]_vars

\* C19 witness: a stream that sent two records and then polled an offset out
\* of range without ending
C19_Witness ==
  /\ stream.state = "running"
  /\ ~stream.cancelled
  /\ Len(stream.sent) >= 2
  /\ stream.waitedAt = stream.Offset
  /\ stream.Offset = stream.start + Len(stream.sent)

\* C20: a stream that waits on offset k, once the record of k is in the log,
\* sends that record unless its context is cancelled.
C20_TailingLiveness ==
  \A k \in TailStarts :
    (/\ stream.state = "running"
     /\ stream.waitedAt = k
     /\ stream.Offset = k
     /\ Log_Read(Log, k).err = NoErr)
      ~> (\/ stream.cancelled
          \/ \E i \in 1..Len(stream.sent) :
               <<stream.sent[i]>> = Log_Read(Log, k).rec)

\* C20 witness: the stream polled offset k on a log without it, Produce
\* appended the record of k, and the stream sent it
C20_Witness ==
  /\ stream.state = "running"
  /\ ~stream.cancelled
  /\ stream.sent # <<>>
  /\ stream.waitedAt = stream.sent[Len(stream.sent)].Offset
  /\ AppendSucceeded
  /\ stream.sent[Len(stream.sent)] = [Value |-> ret.val, Offset |-> ret.off]

\* C21 as stated: a ConsumeStream whose context was cancelled returns nil.
C21_Original ==
  (stream.state = "done" /\ stream.cancelled) => stream.err = NoErr

\* C21: once the context is cancelled the handler returns; the select that
\* observes the cancellation returns nil and sends nothing; an iteration
\* that was already inside the default branch when the context was cancelled
\* still ends, sending at most one more record or returning the error of its
\* Consume or Send; nothing is sent after the handler returned.
C21_CancelEndsStream ==
  /\ [][/\ (stream.state = "running" /\ stream.cancelled /\ stream' # stream) =>
             stream' = [stream EXCEPT !.state = "done"]
        /\ stream.state = "done" => stream' = stream
        /\ stream.cancelled =>
             /\ Len(stream'.sent) <= stream.sentAtCancel + 1
             /\ (stream'.state = "done" /\ stream'.err # NoErr) =>
                  stream.cancelledIn = "default"]_vars
  /\ (stream.cancelled ~> stream.state = "done")

\* C21 witness: the context was cancelled while the handler was emitting the
\* records of the log; it sent the record it was about to send and then
\* returned nil
C21_Witness ==
  /\ stream.state = "done"
  /\ stream.cancelled
  /\ stream.err = NoErr
  /\ stream.cancelledIn = "default"
  /\ stream.sentAtCancel >= 1
  /\ Len(stream.sent) = stream.sentAtCancel + 1

\* the record of request n of the ProduceStream is in the log at offset off
ProducedAt(n, off) ==
  Log_Read(Log, off).rec = <<[Value |-> produceStream.reqs[n], Offset |-> off]>>

\* C22: ProduceStream sends one response per request, in request order, each
\* with the offset at which the record of that request was appended; it
\* receives request n+1 only after response n was sent; the first Recv,
\* Produce or Send error ends the stream with that error and the stream
\* appends no record afterwards.
C22_ProduceStreamResponses ==
  [][/\ produceStream'.resps # produceStream.resps =>
          /\ produceStream'.resps = Append(produceStream.resps, produceStream.res)
          /\ Len(produceStream'.resps) = Len(produceStream.reqs)
          /\ ProducedAt(Len(produceStream.reqs), produceStream.res)
     /\ produceStream'.reqs # produceStream.reqs =>
          /\ Len(produceStream.resps) = Len(produceStream.reqs)
          /\ Len(produceStream'.reqs) = Len(produceStream.reqs) + 1
          /\ SubSeq(produceStream'.reqs, 1, Len(produceStream.reqs)) = produceStream.reqs
     /\ (produceStream.state # "done" /\ produceStream'.state = "done") =>
          /\ produceStream'.err # NoErr
          /\ produceStream.state = "produce" => produceStream'.err = ret'.err
          /\ produceStream'.resps = produceStream.resps
     /\ (produceStream.state \notin {"none", "done"} /\ produceStream'.state # "done") =>
          produceStream'.err = NoErr
     /\ produceStream.state = "done" =>
          /\ produceStream' = produceStream
          /\ (ret'.op = "ProduceStream" => Log' = Log)]_vars

\* C22 witness: the stream answered two requests while another client
\* produced a record between them, and received a third request
C22_Witness ==
  /\ produceStream.state = "produce"
  /\ Len(produceStream.reqs) = 3
  /\ Len(produceStream.resps) = 2
  /\ produceStream.resps[2] > produceStream.resps[1] + 1
  /\ ProducedAt(1, produceStream.resps[1])
  /\ ProducedAt(2, produceStream.resps[2])

\* C23: a Produce or Consume whose subject the Authorizer denies returns
\* PermissionDenied and leaves the commit log as it was: nothing appended,
\* no offset used, nothing read; the same holds for the Produce of a
\* ProduceStream request and the Consume of a ConsumeStream iteration, which
\* end the stream with that error.
C23_DeniedLeavesLog ==
  [][/\ (\E value \in Values : Produce(value, FALSE)) =>
          (ret'.op = "Produce" /\ ret'.err = PermissionDenied)
     /\ (\E off \in ReadOffsets : Consume(off, FALSE)) =>
          (ret'.op = "Consume" /\ ret'.err = PermissionDenied /\ ret'.rec = <<>>)
     /\ (produceStream.state = "produce" /\ ~produceStream.allowed
         /\ produceStream' # produceStream) =>
          produceStream' = [produceStream EXCEPT !.state = "done",
                                                 !.err = PermissionDenied]
     /\ (stream.state = "default" /\ ~stream.allowed /\ stream' # stream) =>
          stream' = [stream EXCEPT !.state = "done", !.err = PermissionDenied]
     /\ (\/ ret' # ret /\ ret'.err = PermissionDenied
         \/ produceStream' # produceStream /\ produceStream'.err = PermissionDenied
         \/ stream' # stream /\ stream'.err = PermissionDenied) =>
          /\ Log' = Log
          /\ nAppends' = nAppends
          /\ prevOff' = prevOff]_vars

\* C23 witness: a Produce was denied on a log holding one record, whose next
\* offset is still 1, and both streams were ended by a denial
C23_Witness ==
  /\ ret.op = "Produce"
  /\ ret.err = PermissionDenied
  /\ prevOff = 0
  /\ seg[activeSegment].nextOffset = 1
  /\ produceStream.state = "done"
  /\ produceStream.err = PermissionDenied
  /\ stream.state = "done"
  /\ stream.err = PermissionDenied

\* C24: after NewLog on the files of a killed process, no segment's
\* nextOffset is past the records its store file holds, and no index slot
\* beyond the entries that were written is read as an entry.
C24_RecoveredTail ==
  ret.op = "NewLogAfterKill" =>
    \A b \in Range(segments) :
      /\ seg[b].nextOffset - b <= RecordCount(FileOf(files, b).store)
      /\ \A k \in 0..(seg[b].index.mmapLen \div entWidth) :
           k >= Len(FileOf(files, b).index) =>
             index_Read(seg[b].index, FileOf(files, b).index, k).err = EOF

\* the writing goroutine is inside Append, Truncate or Reset: past the Lock
\* it started with and not yet returned
Mutating == pc.writer.at \notin {"idle", "Lock"}

\* the reading goroutine is inside Read, LowestOffset, HighestOffset or
\* Reader: it holds the read lock
Reading == pc.reader.at \in {"rlocked", "RUnlock"}

\* C25: while Append, Truncate or Reset is changing the Log, no Read,
\* LowestOffset, HighestOffset or Reader holds the read lock.
C25_MutationsExclusive == Mutating => ~Reading

\* the store used on its own, and its file
TheStore == seg[activeSegment].store
TheStoreFile == files[activeSegment].store

\* C28: store.Append(p) returns the size before the call as position and
\* 8 + len(p) as byte count, and advances size by 8 + len(p); from then on
\* store.Read of a position Append returned gives back the bytes p of that
\* Append, whether they are still in the write buffer or in the file.
C28_StoreAppendRead ==
  [][/\ calls' # calls =>
          LET c == calls'[Len(calls')]
          IN /\ calls' = Append(calls, c)
             /\ c.pos = TheStore.size
             /\ c.n = lenWidth + Len(c.p)
             /\ TheStore'.size = TheStore.size + lenWidth + Len(c.p)
             /\ ret'.arg = c.n
             /\ ret'.off = c.pos
     /\ \A i \in 1..Len(calls') :
          store_Read(TheStore', TheStoreFile', calls'[i].pos)
            = [err |-> NoErr, b |-> calls'[i].p]
     /\ (ret'.op = "store.Read" /\ \E i \in 1..Len(calls) : calls[i].pos = ret'.arg) =>
          /\ ret'.err = NoErr
          /\ \E i \in 1..Len(calls) : calls[i].pos = ret'.arg /\ calls[i].p = ret'.val]_vars

\* C28 witness: a Read returned the payload of the second Append while the
\* write buffer still held it
C28_Witness ==
  /\ ret.op = "store.Read"
  /\ ret.err = NoErr
  /\ Len(calls) >= 2
  /\ ret.arg = calls[2].pos
  /\ ret.val = calls[2].p
  /\ ret.val # <<>>
  /\ ret.off >= lenWidth + Len(ret.val)

\* C29: size is the number of bytes the store handed to its file and its
\* write buffer, also after an Append that failed after the length prefix
\* was taken.
C29_SizeIsBytesHanded ==
  TheStore.size = Len(TheStoreFile) + Len(TheStore.buf)

\* the index used on its own, and the entries of its mapping
TheIndex == seg[activeSegment].index
TheEntries == files[activeSegment].index

\* C27: index.Write on an index whose mapping has no room for another entry
\* (size + entWidth > length of the mapping) returns io.EOF and changes
\* neither size nor any entry.
C27_FullIndexWrite ==
  [][(ret'.op = "index.Write" /\ TheIndex.size + entWidth > TheIndex.mmapLen) =>
       /\ ret'.err = EOF
       /\ TheIndex' = TheIndex
       /\ TheEntries' = TheEntries
       /\ \A in \in IndexIns :
            index_Read(TheIndex', TheEntries', in) = index_Read(TheIndex, TheEntries, in)]_vars

\* C27 witness: a Write on the index with all of its four slots written
\* returned io.EOF
C27_Witness ==
  /\ ret.op = "index.Write"
  /\ ret.err = EOF
  /\ TheIndex.size = TheIndex.mmapLen
  /\ Len(calls) = TheIndex.mmapLen \div entWidth
  /\ Len(TheEntries) = Len(calls)

\* what index.Read(in) returns now
ReadEntry(in) == index_Read(TheIndex, TheEntries, in)

\* index.Read returned the pair of the k-th Write
IsWrite(r, k) == r = [err |-> NoErr, out |-> calls[k].off, pos |-> calls[k].pos]

\* C30: after n successful Writes on an index that was empty, Read(i) for
\* 0 <= i < n returns the pair of Write i+1, Read(-1) the pair of the last
\* Write, and Read(i) for i >= n, like every Read on the empty index,
\* returns io.EOF.
C30_IndexAddressing ==
  LET n == Len(calls)
  IN /\ \A i \in 0..(n - 1) : IsWrite(ReadEntry(i), i + 1)
     /\ n > 0 => IsWrite(ReadEntry(-1), n)
     /\ \A i \in IndexIns : (i >= n \/ n = 0) => ReadEntry(i).err = EOF
     /\ ret.op = "index.Read" =>
          /\ ret.err = ReadEntry(ret.arg).err
          /\ ret.err = NoErr =>
               ret.rec = <<[off |-> ReadEntry(ret.arg).out, pos |-> ReadEntry(ret.arg).pos]>>

\* C30 witness: after three Writes with different pairs, Read(-1) returned
\* the pair of the third
C30_Witness ==
  /\ ret.op = "index.Read"
  /\ ret.arg = -1
  /\ ret.err = NoErr
  /\ Len(calls) = 3
  /\ calls[1] # calls[2]
  /\ calls[2] # calls[3]
  /\ ret.rec = <<calls[3]>>

\* the offset of the k-th committed APPEND
CommittedOffset(k) == Config.InitialOffset + k - 1

\* what read(off) returns on node n
NodeRead(n, off) == Log_Read(cluster.node[n].L, off)

RecordsOfLog(b) ==
  LET recs == ParseRecords(b)
      lowest == Log_LowestOffset(Log).off
  IN /\ \A i \in 1..Len(recs) :
          /\ recs[i].Offset = lowest + i - 1
          /\ Log_Read(Log, recs[i].Offset) = [err |-> NoErr, rec |-> <<recs[i]>>]
     /\ Readable(Log) = {recs[i].Offset : i \in 1..Len(recs)}

\* C31: while the Log is as it was when Reader() returned, the reader
\* yields the bytes of the stores of all segments, in list order and each
\* from position 0: what it has yielded is a prefix of that concatenation,
\* and once it reports io.EOF it has yielded all of it, which are the
\* length-prefixed records of the whole log in offset order.
C31_ReaderYieldsLog ==
  (status = "open" /\ reader.stores # <<>>
     /\ reader.view = StoresBytes(Log, segments)) =>
    /\ IsPrefix(reader.out, reader.view)
    /\ reader.err = EOF =>
         /\ reader.out = StoresBytes(Log, segments)
         /\ RecordsOfLog(reader.out)

\* C31 witness: a reader has reached io.EOF over two segments with records
C31_Witness ==
  /\ status = "open"
  /\ reader.err = EOF
  /\ Len(reader.stores) >= 2
  /\ reader.view = StoresBytes(Log, segments)
  /\ Len(ParseRecords(reader.out)) >= 3
  /\ \A k \in 1..2 : StoreBytes(Log, reader.stores[k]) # <<>>

\* the last n calls of nextFollower over n followers returned each follower
\* exactly once
EachFollowerOnce ==
  \A k \in 1..Len(picker.followers) :
    Cardinality({i \in 1..Len(picker.recent) :
                   picker.recent[i].SubConn = picker.followers[k]}) = 1

\* n calls of nextFollower were made since the last Build, n the number of
\* followers
FullRound ==
  /\ picker.followers # <<>>
  /\ Len(picker.recent) = Len(picker.followers)

\* current wrapped from the largest uint64 to 0 between two of these calls
WrapsWithin == \E i \in 2..Len(picker.recent) : picker.recent[i].wrapped

\* C32 as claimed, its round-robin sentence: any n consecutive Consume
\* picks over n followers, with no Build in between, select each follower
\* exactly once.
C32_Original == FullRound => EachFollowerOnce

\* C32 amended: a Pick for a method containing "Produce" returns the
\* leader, or ErrNoSubConnAvailable when the Picker has none, and never a
\* follower; with no followers every Pick does; a Pick for a method
\* containing "Consume" and not "Produce" returns a follower whenever there
\* is one; and n consecutive Consume picks over n followers return each
\* follower exactly once as long as the counter current does not wrap
\* around within them.
C32_PickRouting ==
  [][ret'.op = "Pick" =>
       LET toLeader == /\ ret'.rec = IF picker.leader = "nil" THEN <<>>
                                     ELSE <<picker.leader>>
                       /\ ret'.err = IF picker.leader = "nil"
                                       THEN ErrNoSubConnAvailable ELSE NoErr
                       /\ \A k \in 1..Len(picker.followers) :
                            ret'.rec # <<picker.followers[k]>>
                       /\ picker' = picker
       IN /\ Contains(ret'.val, StrProduce) => toLeader
          /\ picker.followers = <<>> => toLeader
          /\ (/\ Contains(ret'.val, StrConsume)
              /\ ~Contains(ret'.val, StrProduce)
              /\ picker.followers # <<>>) =>
               /\ ret'.err = NoErr
               /\ \E k \in 1..Len(picker.followers) :
                    ret'.rec = <<picker.followers[k]>>
               /\ picker'.recent # <<>>
          /\ (FullRound' /\ ~WrapsWithin') => EachFollowerOnce']_vars

\* C32 witness: three Consume picks over three followers returned each of
\* them once, and the leader is known
C32_Witness ==
  /\ ret.op = "Pick"
  /\ Contains(ret.val, StrConsume)
  /\ Len(picker.followers) = 3
  /\ FullRound
  /\ EachFollowerOnce
  /\ picker.leader # "nil"
  /\ ret.rec = <<picker.recent[3].SubConn>>

\* C33: whenever the Picker holds a leader or at least one follower, Pick
\* returns a subconnection and no error, whatever the method.
C33_PickFindsSubConn ==
  [][(ret'.op = "Pick" /\ (picker.leader # "nil" \/ picker.followers # <<>>)) =>
       (ret'.err = NoErr /\ ret'.rec # <<>>)]_vars

\* C34: over the lifetime of a data directory (Append, Truncate, clean
\* Close, NewLog on the same directory) every successful Append returns an
\* offset greater than every offset an earlier successful Append returned.
C34_OffsetsNeverReused ==
  [][AppendStep => ret'.off > maxOff]_vars

\* C35: whenever Log.Append returns an error, no record has become
\* readable that was not readable before and HighestOffset() is what it
\* was: an error is never returned for a record that was stored.
C35_AppendAllOrNothing ==
  [][FailedAppendStep =>
       /\ \A off \in Offsets :
            Log_Read(Log', off).err = NoErr => Log_Read(Log, off).err = NoErr
       /\ Log_HighestOffset(Log') = Log_HighestOffset(Log)]_vars

\* C36: Append calls of different goroutines are linearized: every
\* successful call returns the offset after the highest one returned so far
\* (the first one InitialOffset), so the returned offsets are pairwise
\* distinct and gap-free; Read of the returned offset yields the value of
\* that call, and no later step changes what Read yields for it. While a
\* call is between l.mu.Lock and Unlock, no other call has passed Lock.
C36_AppendsLinearized ==
  [][/\ AppendStep =>
          /\ ret'.off = IF maxOff = -1 THEN Config.InitialOffset ELSE maxOff + 1
          /\ Log_Read(Log', ret'.off) = RecordAt(ret'.off, ret'.val)
     /\ \A off \in Offsets :
          Log_Read(Log, off).err = NoErr => Log_Read(Log', off) = Log_Read(Log, off)
     /\ \A g \in Goroutines :
          pc[g].at \in {"cur", "write", "Unlock"} => mu.w /\ InFlight \ {g} \subseteq
            {h \in Goroutines : pc[h].at = "Lock"}]_vars

\* C36 witness: both goroutines had called Append before either had the
\* lock, both calls have returned, and the second returned the next offset
C36_Witness ==
  /\ nAppends >= 2
  /\ AppendSucceeded
  /\ ret.off = Config.InitialOffset + nAppends - 1
  /\ pc.writer.at = "Unlock"
  /\ pc.reader.at = "Lock"
  /\ Len(segments) >= 2

\* C37: the segments surviving Truncate(lowest) are a suffix of the list
\* before it: the removed ones are its first k segments; the segment
\* objects and the files of the survivors are unchanged, and each survivor
\* still starts where the one before it ends.
C37_TruncateRemovesPrefix ==
  [][ret'.op = "Truncate" =>
       /\ \E k \in 0..Len(segments) :
            segments' = SubSeq(segments, k + 1, Len(segments))
       /\ \A b \in Range(segments') :
            seg'[b] = seg[b] /\ FileOf(files', b) = FileOf(files, b)
       /\ \A i \in 1..(Len(segments') - 1) :
            seg'[segments'[i + 1]].baseOffset = seg'[segments'[i]].nextOffset]_vars

\* C37 witness: a Truncate removed the first of three segments and left
\* the two behind it, with their records
C37_Witness ==
  /\ ret.op = "Truncate"
  /\ segments = <<4, 8>>
  /\ 0 \notin DOMAIN files
  /\ seg[4].nextOffset = 8
  /\ seg[8].nextOffset > 8
  /\ \A off \in 4..8 : Log_Read(Log, off).err = NoErr

\* C38: for every lowest, the largest uint64 included, Truncate(lowest)
\* removes exactly the segments whose records all have an offset <= lowest:
\* a segment with records is removed if and only if nextOffset - 1 <= lowest.
C38_TruncateNoWrapAround ==
  [][ret'.op = "Truncate" =>
       \A b \in Range(segments) :
         seg[b].nextOffset > seg[b].baseOffset =>
           (b \notin Range(segments') <=> seg[b].nextOffset - 1 <= ret'.arg)]_vars

\* C39: with MaxIndexBytes >= 12 and MaxStoreBytes > 0, the active segment
\* of an open Log reached by NewLog and Appends is never maxed, so an Append
\* never finds the index full: every Append succeeds.
C39_ActiveNeverMaxed ==
  [][(Config.MaxIndexBytes >= entWidth /\ Config.MaxStoreBytes > 0) =>
       /\ status' = "open" =>
            /\ activeSegment' = segments'[Len(segments')]
            /\ ~Maxed(seg'[activeSegment'])
       /\ nAppends' = nAppends + 1 =>
            /\ ~Maxed(seg[activeSegment])
            /\ ret'.err = NoErr]_vars

\* C39 witness: an Append has succeeded on the second segment of a Log
\* whose index file of 13 bytes has room for one entry
C39_Witness ==
  /\ Config.MaxIndexBytes = entWidth + 1
  /\ AppendSucceeded
  /\ ret.off = 1
  /\ Len(segments) = 3
  /\ seg[segments[2]].index.size = entWidth
  /\ seg[activeSegment].index.size = 0

\* the log holds a record at or after offset k
HoldsFrom(k) == \E off \in Offsets : off >= k /\ Log_Read(Log, off).err = NoErr

\* C40: a running stream that is not cancelled does not stay on one offset
\* forever while the log holds a record at or after that offset: it sends
\* a record or returns.
C40_StreamProgress ==
  \A k \in TailStarts :
    ~<>[](/\ stream.state = "running"
          /\ ~stream.cancelled
          /\ stream.Offset = k
          /\ HoldsFrom(k))

====
